---- MODULE Spec2Model ----
(***************************************************************************)
(* getrandom: the public entry points (getrandom / getrandom_uninit), the  *)
(* Linux/Android backend-selection automaton, the lazy one-shot cache, the *)
(* exact-fill retry loop and the /dev/urandom file fallback, as a          *)
(* multi-threaded state machine.  Every OS call (getrandom, dlsym, open,   *)
(* poll, read, close) is one step whose result is chosen by the            *)
(* environment.                                                            *)
(***************************************************************************)
EXTENDS Integers, Sequences, FiniteSets, TLC

\* ------------------------------------------------------------------ bounds
NThreads == 2          \* concurrent caller threads
ConcLen == 1           \* largest destination length of a concurrent caller
MaxLen == 3            \* largest destination length of the sequential caller
FillLen == 10          \* largest buffer handed to sys_fill_exact on its own
MaxEintr == 2          \* interruptions the mock primitive answers per fill
MaxErrno == 5          \* largest small errno an Error is built from
MaxCode == 2           \* u16 codes tried from each end of the u16 range
MaxCustLen == 7        \* longest buffer given to a registered custom function
MaxWasiLen == 10       \* longest buffer given to the WASI preview 2 backend
MaxRdLen == 17         \* longest destination given to rdrand_exact

Threads == 1..NThreads

\* ----------------------------------------------------- program constants
EPERM == 1
EINTR == 4
EIO == 5
EAGAIN == 11
ENOSYS == 38
\* usize::MAX; pointer-sized words are modelled with 31 bits
USIZE_MAX == 2147483647
\* LazyUsize::UNINIT
UNINIT == USIZE_MAX
\* NOT_AVAILABLE of the dlsym-based fill_inner
NOT_AVAILABLE == USIZE_MAX
\* FD_UNINIT of get_rng_fd
FD_UNINIT == -1
INTERNAL_START2 == 65536
CUSTOM_START2 == 131072
\* address dlsym returns for the libc symbol "getrandom" when it exists
GETRANDOM_ADDR == 4096
\* lowest descriptor number the process can get from open()
FIRST_FD == 3

\* -------------------------------------------------------------- Option<T>
None == <<>>
Some(x) == <<x>>

\* ------------------------------------------------------------ error model
i32_MIN == -2147483647 - 1
I32_MAX == 2147483647
U16_MAX == 65535
U8_MOD == 256          \* an AtomicU8 counts modulo 2^8
LEN7 == 7              \* the buffer length the test implementations refuse
FILL_BYTE == 85        \* 0x55, the byte mock_rng fills with
U64_SIZE == 8          \* size and alignment of a u64
RETRY_LIMIT == 10      \* reads that rdrand() makes for one word
WORD_SIZE == 8         \* size_of::<usize>() on x86_64
VAL_42 == 42           \* the value getrandom_inner (WASI preview 2) tests for
STATE_INIT_ONGOING == 1
STATE_USE_SYSCALL == 2
STATE_USE_FD == 4

\* mutant: the code is scaled as if internal codes were two bytes apart, which
\* runs into the custom range
new_internal_overlap(n) == INTERNAL_START2 + 2 * n

new_internal(n) == INTERNAL_START2 + n
new_custom(n) == CUSTOM_START2 + n
UNSUPPORTED == new_internal(0)
ERRNO_NOT_POSITIVE == new_internal(1)
UNEXPECTED == new_internal(2)

\* mutant: the code is stored as given, zero and positive values included
from_os_error_unchecked(code) == code

\* Error::from_os_error: OS errors are stored as negative codes
from_os_error(code) == IF code # 0 /\ code < 0 THEN code ELSE UNEXPECTED

\* mutant: the negation wraps, as wrapping_neg does, where checked_neg fails
wrapping_neg(code) == IF code = i32_MIN THEN Some(i32_MIN) ELSE Some(0 - code)

\* i32::checked_neg
checked_neg(code) == IF code = i32_MIN THEN None ELSE Some(0 - code)

\* mutant: the stored code is handed out as it is, without the negation
raw_os_error_as_stored(code) == IF code >= 0 THEN None ELSE Some(code)

\* Error::raw_os_error
raw_os_error(code) == IF code >= 0 THEN None ELSE checked_neg(code)

\* mutant: errno is negated and stored without the test for errno > 0
last_os_error_unchecked(errno) == from_os_error(0 - errno)

\* last_os_error: the Error for the errno the failed call left behind
last_os_error(errno) ==
    IF errno > 0 THEN from_os_error(0 - errno) ELSE ERRNO_NOT_POSITIVE

\* map_io_error: std::io::Error of a failed File::open -> Error
map_io_error(errno) ==
    IF errno = None THEN UNEXPECTED
    ELSE IF errno[1] > 0 THEN from_os_error(0 - errno[1]) ELSE ERRNO_NOT_POSITIVE

\* ---------------------------------------------------------------- slices
\* A slice is a pointer and a length; thread t's destination starts at DestAddr(t)
DestAddr(t) == t * 16
Slice(p, n) == [ptr |-> p, len |-> n]
EmptySlice == Slice(0, 0)

\* buf.get_mut(n..): None when n is past the end
get_mut_from(buf, n) ==
    IF n <= buf.len THEN Some(Slice(buf.ptr + n, buf.len - n)) ELSE None

\* slice_as_uninit_mut / slice_assume_init_mut: a pointer cast, same memory
slice_as_uninit_mut(s) == s
slice_assume_init_mut(s) == s

VARIABLES
    platform,        \* "linux" or "android" (cfg target_os)
    variant,         \* "lazy_bool": getrandom_inner over HAS_GETRANDOM;
                     \* "dlsym": fill_inner over GETRANDOM_FN
    HAS_GETRANDOM,   \* static LazyBool of getrandom_inner (its LazyUsize word)
    GETRANDOM_FN,    \* static LazyUsize of fill_inner
    FD,              \* static AtomicI32 of get_rng_fd
    MUTEX,           \* static Mutex of get_fd_locked: 0 free, else the holder
    fds,             \* the process's descriptor table: set of [fd, path]
    th,              \* per thread, the frame of its current call:
                     \*   pc    where the thread is
                     \*   api   "getrandom" or "getrandom_uninit"
                     \*   dest  the destination slice
                     \*   mem   dest's bytes: "U" uninitialized, "I" initialized
                     \*         by the caller, "W" written by the source
                     \*   buf   sys_fill_exact's remaining span
                     \*   val   unsync_init's local val
                     \*   fd    get_rng_fd's local fd
                     \*   rfd   wait_until_rng_ready's /dev/random descriptor
                     \*   res   the Result so far: 0 = Ok, else the Error code
                     \*   view  the slice getrandom_uninit returned (Option)
                     \*   eff   what the call has done so far
                     \*   nwritten  bytes reported by its successful attempts
                     \*   readyErr  the Error of a failed readiness step (0: none)
                     \*   last  the call's latest fill attempt (Option): return
                     \*         value and, after a -1, errno
                     \*   probe  the probe call this call's init() made (Option):
                     \*         request length, return value, errno
                     \*   late  the call started after a probe result was stored
                     \*   settled  the call started with the decision resolved
                     \*         and, on the fallback path, the descriptor stored
    pollOk,          \* a readiness poll has returned successfully in this process
    probeStored,     \* some run of init() has stored its result
    probeResults,    \* the outcomes (available?) of all runs of init() so far
    observed,        \* the first resolved value a load of the cache returned (Option)
    getrandomLog,    \* the getrandom function as the process has met it so far:
                     \*   called  it has been invoked at least once
                     \*   forced  every lookup of the symbol found it and every
                     \*           invocation failed with ENOSYS
    fill,            \* sys_fill_exact run on its own over a mock sys_fill:
                     \*   pc    "idle", "attempt" (in the loop) or "done"
                     \*   dest  the buffer it was called with
                     \*   buf   the loop's remaining span
                     \*   mem   dest's bytes, "U" unwritten or "W" written
                     \*   res   the Result: 0 = Ok, else the Error code
                     \*   tries   attempts made
                     \*   eintrs  attempts that failed with EINTR
                     \*   last  the latest attempt (Option): offset and length
                     \*         of the span offered, return value, errno
                     \*   ks    the chunk sizes k for which every attempt that
                     \*         was not interrupted wrote min(k, remaining)
                     \*   exact every attempt was offered exactly the unwritten
                     \*         suffix of dest, and that was not empty
    errs,            \* two Error values under construction, each a record:
                     \*   kind  "none", or the constructor that built it:
                     \*         "errno" (last_os_error), "os" (from_os_error),
                     \*         "internal" (new_internal), "custom" (new_custom)
                     \*   arg   the constructor's argument
                     \*   code  the integer the Error holds
                     \*   raw   what raw_os_error() returns for it
    cust,            \* a program with a registered custom implementation:
                     \*   rng   the registered function ("none" before)
                     \*   COUNTER  static AtomicU8 of super_insecure_rng
                     \*   pc    "idle", "inner" (in getrandom_inner, before the
                     \*         extern call), "ret" (the extern call returned),
                     \*         "done" or "panicked"
                     \*   dest  the caller's buffer
                     \*   mem   its bytes
                     \*   prev  the caller's buffer at the end of the call before
                     \*   c0    COUNTER when the call started
                     \*   calls how often the call invoked the registered function
                     \*   passed  the slice the registered function was given (Option)
                     \*   wrote the bytes the registered function produced
                     \*   bres  the Result the registered function returned (Option)
                     \*   ret   the u32 __getrandom_custom returned (Option)
                     \*   res   the Result getrandom returned (Option)
    wasi,            \* a call on WASI preview 2:
                     \*   pc    "idle", "prefix", "chunks", "suffix", "done"
                     \*         or "panicked"
                     \*   dest  the destination slice
                     \*   mem   dest's bytes, "U" unwritten or "W" written
                     \*   parts align_to_mut's split of dest: the lengths pre
                     \*         and suf in bytes and chunks in u64 words
                     \*   i     chunks written so far
                     \*   res   the Result (Option)
    la,              \* the backend of linux_android.rs:
                     \*   RNG_STATE, RNG_FD  its statics
                     \*   fds   the descriptor table: set of [fd, path]
                     \*   readRandom  a byte has been read from /dev/random
                     \*   th    per thread: pc, n (dest.len()), rfd (the
                     \*         /dev/random descriptor of init_fd), res (0 =
                     \*         Ok, else the errno of the Error)
    ext              \* further parts, each run on its own; a record:
                     \*   lazy  a lazily initialized static shared by the threads:
                     \*     kind  which of the three cache types ("none" before)
                     \*     word  the atomic word
                     \*     made  the pointers that runs of init() have returned
                     \*     th    per thread: pc; val, the value obtained; ran,
                     \*           the call ran init(); res, the call's Result
                     \*           (Option); seen, whether the data that init()
                     \*           wrote was there when the thread read it
                     \*           through val (Option)
                     \*   netbsd  the NetBSD backend:
                     \*     GETRANDOM  the cached function pointer ("null",
                     \*           "getrandom" or "polyfill_using_kern_arand")
                     \*     used  the functions that calls have filled with
                     \*     th    per thread: pc; ptr, what its init() looked
                     \*           up; fptr, the function it goes on with
                     \*   loops  fill_inner of linux_raw.rs and sys_fill_exact
                     \*           run side by side on the same kernel results:
                     \*     pc, dest; k, the kernel's last result (Option)
                     \*     raw, libc  where each loop is: out ("again", "ok",
                     \*           "err"), err (the Error's code), buf
                     \*   rdrand  rdrand_exact of rdrand.rs:
                     \*     pc; len, the bytes still to write; tries, the
                     \*     reads made by the current rdrand(); reads, the
                     \*     reads of the call; mem, what was written, word by
                     \*     word: el, the word; cf, the read's carry flag; n,
                     \*     how many of its bytes; res, "Ok" or the Error (Option)

vars == <<platform, variant, HAS_GETRANDOM, GETRANDOM_FN, FD, MUTEX, fds, th,
          pollOk, probeStored, probeResults, observed, getrandomLog, fill, errs,
          cust, wasi, la, ext>>

\* the state of the parts that are run on their own
units == <<fill, errs, cust, wasi, la, ext>>

\* the state of the backends
process == <<platform, variant, HAS_GETRANDOM, GETRANDOM_FN, FD, MUTEX, fds, th,
             pollOk, probeStored, probeResults, observed, getrandomLog>>

except_fill == <<process, errs, cust, wasi, la, ext>>
except_errs == <<process, fill, cust, wasi, la, ext>>
except_cust == <<process, fill, errs, wasi, la, ext>>
except_wasi == <<process, fill, errs, cust, la, ext>>
except_la == <<process, fill, errs, cust, wasi, ext>>
except_ext == <<process, fill, errs, cust, wasi, la>>

Platforms == {"linux", "android"}
Variants == {"lazy_bool", "dlsym"}
Apis == {"getrandom", "getrandom_uninit"}

\* what the environment can answer
ProbeErrnos == {0, EPERM, EINTR, ENOSYS}
FillErrnos(at) == IF at = "fill_sys" THEN {EINTR, ENOSYS, EPERM} ELSE {0, EINTR, EIO}
PollErrnos == {EINTR, EAGAIN, EIO}
OpenErrors == {None, Some(0), Some(EIO)}
FillRets(b) == {-2, -1, 0} \cup 1..(b.len + 1)

Idle ==
    [pc |-> "idle", api |-> "getrandom", dest |-> EmptySlice, mem |-> <<>>,
     buf |-> EmptySlice, val |-> UNINIT, fd |-> FD_UNINIT, rfd |-> FD_UNINIT,
     res |-> 0, view |-> None, eff |-> {}, nwritten |-> 0, readyErr |-> 0,
     last |-> None,
     probe |-> None, late |-> FALSE, settled |-> FALSE]

\* the two Error values compared with each other
Slots == {1, 2}

NoError == [kind |-> "none", arg |-> 0, code |-> 0, raw |-> None]

\* Result<(), Error>
Ok == [ok |-> TRUE, code |-> 0]
Err(e) == [ok |-> FALSE, code |-> e]

IdleCust ==
    [rng |-> "none", COUNTER |-> 0, pc |-> "idle", dest |-> EmptySlice,
     mem |-> <<>>, prev |-> <<>>, c0 |-> 0, calls |-> 0, passed |-> None,
     wrote |-> <<>>, bres |-> None, ret |-> None, res |-> None]

IdleExt ==
    [lazy |-> [kind |-> "none", word |-> 0, made |-> {},
               th |-> [t \in Threads |->
                         [pc |-> "idle", val |-> 0, ran |-> FALSE, res |-> None,
                          seen |-> None]]],
     netbsd |-> [GETRANDOM |-> "null", used |-> {},
                 th |-> [t \in Threads |->
                           [pc |-> "idle", ptr |-> "null", fptr |-> "null"]]],
     loops |-> [pc |-> "idle", dest |-> EmptySlice, k |-> None,
                raw |-> [out |-> "again", err |-> 0, buf |-> EmptySlice],
                libc |-> [out |-> "again", err |-> 0, buf |-> EmptySlice]],
     rdrand |-> [pc |-> "idle", len |-> 0, tries |-> 0, reads |-> 0,
                 mem |-> <<>>, res |-> None]]

IdleLa ==
    [RNG_STATE |-> 0, RNG_FD |-> FD_UNINIT, fds |-> {}, readRandom |-> FALSE,
     th |-> [t \in Threads |-> [pc |-> "idle", n |-> 0, rfd |-> FD_UNINIT, res |-> 0]]]

IdleWasi ==
    [pc |-> "idle", dest |-> EmptySlice, mem |-> <<>>,
     parts |-> [pre |-> 0, chunks |-> 0, suf |-> 0], i |-> 0, res |-> None]

IdleFill ==
    [pc |-> "idle", dest |-> EmptySlice, buf |-> EmptySlice, mem |-> <<>>,
     res |-> 0, tries |-> 0, eintrs |-> 0, last |-> None, ks |-> {},
     exact |-> TRUE]

Init ==
    /\ platform \in Platforms
    /\ variant \in Variants
    /\ HAS_GETRANDOM = UNINIT
    /\ GETRANDOM_FN = UNINIT
    /\ FD = FD_UNINIT
    /\ MUTEX = 0
    /\ fds = {}
    /\ th = [t \in Threads |-> Idle]
    /\ pollOk = FALSE
    /\ probeStored = FALSE
    /\ probeResults = {}
    /\ observed = None
    /\ getrandomLog = [called |-> FALSE, forced |-> TRUE]
    /\ fill = IdleFill
    /\ errs = [i \in Slots |-> NoError]
    /\ cust = IdleCust
    /\ wasi = IdleWasi
    /\ la = IdleLa
    /\ ext = IdleExt

\* the word the selection automaton caches its decision in
Cell == IF variant = "lazy_bool" THEN HAS_GETRANDOM ELSE GETRANDOM_FN


\* ------------------------------------------------------- pure operations
is_empty(s) == s.len = 0

\* mutant: the emptiness check is missing, every call goes to the backend
needs_backend_always(d) == TRUE

\* getrandom_uninit's `if !dest.is_empty()`: does the call go to the backend?
needs_backend(d) == ~is_empty(d)

\* LazyBool::unsync_init's usize::from(init())
usize_from_bool(b) == IF b THEN 1 ELSE 0

\* mutant: the loaded value is never taken for a cached one
is_resolved_never(val) == FALSE

\* unsync_init / CachedPtr::get: has the load found a value other than UNINIT?
is_resolved(val) == val # UNINIT

\* mutant: a store that finds the word already set resets it to its sentinel
atomic_store_reset(old, new) == IF old = USIZE_MAX \/ old = -1 THEN new ELSE USIZE_MAX

\* AtomicUsize::store / AtomicI32::store: the word's contents afterwards
atomic_store(old, new) == new

\* mutant: EPERM means Unavailable on every target, Android included
is_getrandom_available_no_cfg(ret, errno, os) ==
    IF ret < 0
    THEN LET e == raw_os_error(last_os_error(errno)) IN
         IF e = Some(ENOSYS) THEN FALSE
         ELSE IF e = Some(EPERM) THEN FALSE
         ELSE TRUE
    ELSE TRUE

\* is_getrandom_available / is_getrandom_good: the outcome of the zero-length
\* probe call, from its return value and the errno it left
is_getrandom_available(ret, errno, os) ==
    IF ret < 0
    THEN LET e == raw_os_error(last_os_error(errno)) IN
         IF e = Some(ENOSYS) THEN FALSE
         ELSE IF e = Some(EPERM) /\ os = "linux" THEN FALSE
         ELSE TRUE
    ELSE TRUE

\* init() of fill_inner: dlsym("getrandom"), then the probe through the symbol
dlsym_init(sym, ret, errno, os) ==
    IF sym = 0 THEN None
    ELSE IF is_getrandom_available(ret, errno, os) THEN Some(sym) ELSE None

unwrap_or(o, d) == IF o = None THEN d ELSE o[1]

\* mutant: the branch is taken the wrong way round, the file serves every call
use_syscall_never(kind, v) == FALSE

\* the branch getrandom_inner / fill_inner takes on the cached value
use_syscall(kind, v) == IF kind = "lazy_bool" THEN v # 0 ELSE v # NOT_AVAILABLE

\* mutant: the source copies a whole scratch buffer of which only k bytes
\* were produced, leaving the rest of the span uninitialized
write_bytes_scratch(mem, off, k) ==
    [i \in DOMAIN mem |-> IF off < i /\ i <= off + k THEN "W"
                          ELSE IF off + k < i THEN "U" ELSE mem[i]]

\* the source stores k bytes at offset off of the destination
write_bytes(mem, off, k) ==
    [i \in DOMAIN mem |-> IF off < i /\ i <= off + k THEN "W" ELSE mem[i]]

Min(a, b) == IF a < b THEN a ELSE b

\* mutant: a successful attempt does not move the cursor
sys_fill_step_stuck(b, ret, errno) ==
    IF ret > 0 THEN [out |-> "again", err |-> 0, buf |-> b]
    ELSE IF ret = -1 /\ errno = EINTR THEN [out |-> "again", err |-> 0, buf |-> b]
    ELSE [out |-> "err", err |-> UNEXPECTED, buf |-> b]

\* mutant: the loop tests for an empty span only after an attempt, so a full
\* buffer gets one attempt more
sys_fill_step_do_while(b, ret, errno) ==
    IF ret > 0
    THEN LET r == get_mut_from(b, ret) IN
         IF r = None THEN [out |-> "err", err |-> UNEXPECTED, buf |-> b]
         ELSE [out |-> "again", err |-> 0, buf |-> r[1]]
    ELSE IF ret = -1
    THEN LET err == last_os_error(errno) IN
         IF raw_os_error(err) # Some(EINTR)
         THEN [out |-> "err", err |-> err, buf |-> b]
         ELSE [out |-> "again", err |-> 0, buf |-> b]
    ELSE [out |-> "err", err |-> UNEXPECTED, buf |-> b]

\* mutant: an interrupted attempt is a failure like any other
sys_fill_step_eintr_fatal(b, ret, errno) ==
    IF ret > 0
    THEN LET r == get_mut_from(b, ret) IN
         IF r = None THEN [out |-> "err", err |-> UNEXPECTED, buf |-> b]
         ELSE IF is_empty(r[1]) THEN [out |-> "ok", err |-> 0, buf |-> r[1]]
         ELSE [out |-> "again", err |-> 0, buf |-> r[1]]
    ELSE IF ret = -1
    THEN [out |-> "err", err |-> last_os_error(errno), buf |-> b]
    ELSE [out |-> "err", err |-> UNEXPECTED, buf |-> b]

\* mutant: an attempt that wrote nothing is tried again
sys_fill_step_eof_retry(b, ret, errno) ==
    IF ret > 0
    THEN LET r == get_mut_from(b, ret) IN
         IF r = None THEN [out |-> "err", err |-> UNEXPECTED, buf |-> b]
         ELSE IF is_empty(r[1]) THEN [out |-> "ok", err |-> 0, buf |-> r[1]]
         ELSE [out |-> "again", err |-> 0, buf |-> r[1]]
    ELSE IF ret = -1
    THEN LET err == last_os_error(errno) IN
         IF raw_os_error(err) # Some(EINTR)
         THEN [out |-> "err", err |-> err, buf |-> b]
         ELSE [out |-> "again", err |-> 0, buf |-> b]
    ELSE IF ret = 0 THEN [out |-> "again", err |-> 0, buf |-> b]
         ELSE [out |-> "err", err |-> UNEXPECTED, buf |-> b]

\* mutant: the span is advanced by indexing, buf[res..], which panics past the
\* end
sys_fill_step_index(b, ret, errno) ==
    IF ret > 0
    THEN LET r == get_mut_from(b, ret) IN
         IF r = None THEN [out |-> "panic", err |-> 0, buf |-> b]
         ELSE IF is_empty(r[1]) THEN [out |-> "ok", err |-> 0, buf |-> r[1]]
         ELSE [out |-> "again", err |-> 0, buf |-> r[1]]
    ELSE IF ret = -1
    THEN LET err == last_os_error(errno) IN
         IF raw_os_error(err) # Some(EINTR)
         THEN [out |-> "err", err |-> err, buf |-> b]
         ELSE [out |-> "again", err |-> 0, buf |-> b]
    ELSE [out |-> "err", err |-> UNEXPECTED, buf |-> b]

\* mutant: every failure is reported as Unexpected, the errno is lost
sys_fill_step_opaque(b, ret, errno) ==
    IF ret > 0
    THEN LET r == get_mut_from(b, ret) IN
         IF r = None THEN [out |-> "err", err |-> UNEXPECTED, buf |-> b]
         ELSE IF is_empty(r[1]) THEN [out |-> "ok", err |-> 0, buf |-> r[1]]
         ELSE [out |-> "again", err |-> 0, buf |-> r[1]]
    ELSE IF ret = -1
    THEN LET err == last_os_error(errno) IN
         IF raw_os_error(err) # Some(EINTR)
         THEN [out |-> "err", err |-> UNEXPECTED, buf |-> b]
         ELSE [out |-> "again", err |-> 0, buf |-> b]
    ELSE [out |-> "err", err |-> UNEXPECTED, buf |-> b]

\* mutant: a short write ends the loop, the unwritten suffix is not retried
sys_fill_step_once(b, ret, errno) ==
    IF ret > 0
    THEN LET r == get_mut_from(b, ret) IN
         IF r = None THEN [out |-> "err", err |-> UNEXPECTED, buf |-> b]
         ELSE [out |-> "ok", err |-> 0, buf |-> r[1]]
    ELSE IF ret = -1
    THEN LET err == last_os_error(errno) IN
         IF raw_os_error(err) # Some(EINTR)
         THEN [out |-> "err", err |-> err, buf |-> b]
         ELSE [out |-> "again", err |-> 0, buf |-> b]
    ELSE [out |-> "err", err |-> UNEXPECTED, buf |-> b]

\* one iteration of sys_fill_exact's loop, given what sys_fill returned
sys_fill_step(b, ret, errno) ==
    IF ret > 0
    THEN LET r == get_mut_from(b, ret) IN
         IF r = None THEN [out |-> "err", err |-> UNEXPECTED, buf |-> b]
         ELSE IF is_empty(r[1]) THEN [out |-> "ok", err |-> 0, buf |-> r[1]]
         ELSE [out |-> "again", err |-> 0, buf |-> r[1]]
    ELSE IF ret = -1
    THEN LET err == last_os_error(errno) IN
         IF raw_os_error(err) # Some(EINTR)
         THEN [out |-> "err", err |-> err, buf |-> b]
         ELSE [out |-> "again", err |-> 0, buf |-> b]
    ELSE [out |-> "err", err |-> UNEXPECTED, buf |-> b]

\* get_fd: FD.load(Acquire), None while the descriptor is unset
get_fd(cell) == IF cell = FD_UNINIT THEN None ELSE Some(cell)

\* mutant: no fast path, every call goes through get_fd_locked
get_fd_always_locks(cell) == None

\* get_rng_fd's first, unlocked get_fd()
get_fd_unlocked(cell) == get_fd(cell)

\* mutant: no second check under the lock, the holder always opens
get_fd_no_recheck(cell) == None

\* get_fd_locked's second get_fd(), with the mutex held
get_fd_under_lock(cell) == get_fd(cell)

\* mutant: the lock does not exclude, lock() returns at once
mutex_ignored(m) == TRUE

\* pthread_mutex_lock returns only once the mutex is free
mutex_free(m) == m = 0

\* mutant: the mutex is unlocked on the success path only, an early return
\* through `?` leaves it locked
unlock_on_success(m, res) == IF res = 0 THEN 0 ELSE m

\* DropGuard: MUTEX.unlock() runs on every way out of get_fd_locked
unlock_guard(m, res) == 0

\* dropping a File closes its descriptor
drop_file(tab, d) == {e \in tab : e.fd # d}

\* mutant: the descriptor is borrowed (as_raw_fd), the File closes it when it
\* goes out of scope
as_raw_fd(tab, d) == drop_file(tab, d)

\* File::into_raw_fd: the File gives up the descriptor, which stays open
into_raw_fd(tab, d) == tab

\* mutant: a poll that fails for good is taken for readiness
poll_step_unchecked(ret, errno) ==
    IF ret >= 0 THEN [out |-> "ready", err |-> 0]
    ELSE LET err == last_os_error(errno) IN
         IF raw_os_error(err) \in {Some(EINTR), Some(EAGAIN)}
         THEN [out |-> "again", err |-> 0]
         ELSE [out |-> "ready", err |-> 0]

\* one iteration of wait_until_rng_ready's loop, given what poll returned
poll_step(ret, errno) ==
    IF ret >= 0 THEN [out |-> "ready", err |-> 0]
    ELSE LET err == last_os_error(errno) IN
         IF raw_os_error(err) \in {Some(EINTR), Some(EAGAIN)}
         THEN [out |-> "again", err |-> 0]
         ELSE [out |-> "err", err |-> err]

\* the lowest descriptor number not in use: what open() returns
lowest_free(tab) ==
    CHOOSE n \in FIRST_FD..(FIRST_FD + Cardinality(tab)) :
        /\ \A e \in tab : e.fd # n
        /\ \A m \in FIRST_FD..(n - 1) : \E e \in tab : e.fd = m

\* mutant: the view is made from the loop's remaining span instead of dest
Finish_from_buf(f, r) ==
    [f EXCEPT !.pc = "done", !.res = r,
              !.view = IF r = 0 /\ f.api = "getrandom_uninit"
                       THEN Some(slice_assume_init_mut(f.buf)) ELSE None]

\* mutant: getrandom_uninit hands out the view whatever the backend returned
Finish_view_always(f, r) ==
    [f EXCEPT !.pc = "done", !.res = r,
              !.view = IF f.api = "getrandom_uninit"
                       THEN Some(slice_assume_init_mut(f.dest)) ELSE None]

\* getrandom_uninit / getrandom return r; only getrandom_uninit hands out a view
Finish(f, r) ==
    [f EXCEPT !.pc = "done", !.res = r,
              !.view = IF r = 0 /\ f.api = "getrandom_uninit"
                       THEN Some(slice_assume_init_mut(f.dest)) ELSE None]

\* entry of sys_fill_exact: `while !buf.is_empty()` before the first attempt
EnterFill(f, at) == IF is_empty(f.buf) THEN Finish(f, 0) ELSE [f EXCEPT !.pc = at]

\* getrandom_inner / fill_inner after unsync_init returned v
Dispatch(f, v) ==
    IF use_syscall(variant, v) THEN EnterFill(f, "fill_sys")
    ELSE [f EXCEPT !.pc = "get_fd"]

Did(f, what) == [f EXCEPT !.eff = @ \cup {what}]

\* a fill attempt as made: its return value and the errno a -1 left
attempt_call(ret, errno) == [ret |-> ret, errno |-> IF ret = -1 THEN errno ELSE 0]

\* mutant: a getrandom attempt that fails with ENOSYS or EPERM sends the call
\* to the file fallback instead of returning the error
fill_result_fallback(g, s) ==
    IF s.out = "ok" THEN Finish(g, 0)
    ELSE IF s.out = "err"
    THEN IF g.pc = "fill_sys" /\ raw_os_error(s.err) \in {Some(ENOSYS), Some(EPERM)}
         THEN [g EXCEPT !.pc = "get_fd", !.buf = g.dest]
         ELSE Finish(g, s.err)
    ELSE g

\* getrandom_inner / use_file::getrandom_inner return what sys_fill_exact
\* returned; while the loop goes on the call stays where it is
fill_result(g, s) ==
    IF s.out = "ok" THEN Finish(g, 0)
    ELSE IF s.out = "err" THEN Finish(g, s.err)
    ELSE g

\* the span the probe hands to getrandom: `&mut []`, a zero-length request
probe_request == EmptySlice

\* does init() invoke getrandom at all?  is_getrandom_available always does;
\* the dlsym-based init() only when the symbol exists
calls_probe(kind, sym) == kind = "lazy_bool" \/ sym # 0

\* the probe call as made: its request length, return value and the errno a
\* failure left (errno is read only after a negative return)
probe_call(req, ret, errno) ==
    [len |-> req.len, ret |-> ret, errno |-> IF ret < 0 THEN errno ELSE 0]

\* the log after one more invocation of getrandom
Invoked(log, ret, errno) ==
    [called |-> TRUE, forced |-> log.forced /\ ret = -1 /\ errno = ENOSYS]

\* ----------------------------------------------------------------- actions
\* getrandom(dest) / getrandom_uninit(dest) up to unsync_init's load
Call(t, apis, maxlen) ==
    /\ th[t].pc = "idle"
    /\ \E a \in apis, n \in 0..maxlen :
         LET d == slice_as_uninit_mut(Slice(DestAddr(t), n))
             f == [Idle EXCEPT !.api = a, !.dest = d, !.buf = d,
                     !.mem = [i \in 1..n |-> IF a = "getrandom" THEN "I" ELSE "U"],
                     !.late = probeStored,
                     !.settled = /\ Cell # UNINIT
                                 /\ use_syscall(variant, Cell) \/ FD # FD_UNINIT]
         IN IF ~needs_backend(d)
            THEN /\ th' = [th EXCEPT ![t] = Finish(f, 0)]
                 /\ UNCHANGED observed
            ELSE IF is_resolved(Cell)
            THEN /\ th' = [th EXCEPT ![t] = Dispatch([f EXCEPT !.val = Cell], Cell)]
                 /\ observed' = IF observed = None THEN Some(Cell) ELSE observed
            ELSE /\ th' = [th EXCEPT ![t] = [f EXCEPT !.pc = "init"]]
                 /\ UNCHANGED observed
    /\ UNCHANGED <<units, platform, variant, HAS_GETRANDOM, GETRANDOM_FN, FD, MUTEX, fds,
                   pollOk, probeStored, probeResults, getrandomLog>>

\* do_init: val = init(), the capability probe
RunInit(t) ==
    /\ th[t].pc = "init"
    /\ \E sym \in {0, GETRANDOM_ADDR}, ret \in {-1, 0}, errno \in ProbeErrnos :
         LET probed == calls_probe(variant, sym)
             ok == IF variant = "lazy_bool"
                   THEN is_getrandom_available(ret, errno, platform)
                   ELSE dlsym_init(sym, ret, errno, platform) # None
             v == IF variant = "lazy_bool"
                  THEN usize_from_bool(is_getrandom_available(ret, errno, platform))
                  ELSE unwrap_or(dlsym_init(sym, ret, errno, platform), NOT_AVAILABLE)
             p == IF probed THEN Some(probe_call(probe_request, ret, errno)) ELSE None
         IN /\ th' = [th EXCEPT ![t] = Did([@ EXCEPT !.pc = "store", !.val = v,
                                                      !.probe = p], "probe")]
            /\ probeResults' = probeResults \cup {ok}
            /\ getrandomLog' = IF probed THEN Invoked(getrandomLog, ret, errno)
                               ELSE [getrandomLog EXCEPT !.forced = FALSE]
    /\ UNCHANGED <<units, platform, variant, HAS_GETRANDOM, GETRANDOM_FN, FD, MUTEX, fds,
                   pollOk, probeStored, observed>>

\* do_init: this.0.store(val), then the caller branches on val
StoreVal(t) ==
    /\ th[t].pc = "store"
    /\ IF variant = "lazy_bool"
       THEN /\ HAS_GETRANDOM' = atomic_store(HAS_GETRANDOM, th[t].val)
            /\ UNCHANGED GETRANDOM_FN
       ELSE /\ GETRANDOM_FN' = atomic_store(GETRANDOM_FN, th[t].val)
            /\ UNCHANGED HAS_GETRANDOM
    /\ probeStored' = TRUE
    /\ th' = [th EXCEPT ![t] = Dispatch(Did(@, "store_flag"), th[t].val)]
    /\ UNCHANGED <<units, platform, variant, FD, MUTEX, fds, pollOk, probeResults, observed, getrandomLog>>

\* get_rng_fd: the unlocked get_fd()
GetFd(t) ==
    /\ th[t].pc = "get_fd"
    /\ th' = [th EXCEPT ![t] =
                IF get_fd_unlocked(FD) # None
                THEN EnterFill([@ EXCEPT !.fd = get_fd_unlocked(FD)[1]], "fill_file")
                ELSE [@ EXCEPT !.pc = "lock"]]
    /\ UNCHANGED <<units, platform, variant, HAS_GETRANDOM, GETRANDOM_FN, FD, MUTEX, fds,
                   pollOk, probeStored, probeResults, observed, getrandomLog>>

\* get_fd_locked: MUTEX.lock()
Lock(t) ==
    /\ th[t].pc = "lock"
    /\ mutex_free(MUTEX)
    /\ MUTEX' = t
    /\ th' = [th EXCEPT ![t] = Did([@ EXCEPT !.pc = "locked"], "lock")]
    /\ UNCHANGED <<units, platform, variant, HAS_GETRANDOM, GETRANDOM_FN, FD, fds,
                   pollOk, probeStored, probeResults, observed, getrandomLog>>

\* get_fd_locked: the second get_fd(), under the mutex
LockedGetFd(t) ==
    /\ th[t].pc = "locked"
    /\ th' = [th EXCEPT ![t] =
                IF get_fd_under_lock(FD) # None
                THEN [@ EXCEPT !.fd = get_fd_under_lock(FD)[1], !.pc = "unlock"]
                ELSE [@ EXCEPT !.pc = "open_random"]]
    /\ UNCHANGED <<units, platform, variant, HAS_GETRANDOM, GETRANDOM_FN, FD, MUTEX, fds,
                   pollOk, probeStored, probeResults, observed, getrandomLog>>

\* wait_until_rng_ready: File::open("/dev/random")
OpenRandom(t) ==
    /\ th[t].pc = "open_random"
    /\ \/ LET n == lowest_free(fds) IN
          /\ fds' = fds \cup {[fd |-> n, path |-> "/dev/random"]}
          /\ th' = [th EXCEPT ![t] = Did([@ EXCEPT !.rfd = n, !.pc = "poll"],
                                         "open_random")]
       \/ \E e \in OpenErrors :
          /\ th' = [th EXCEPT ![t] = [@ EXCEPT !.res = map_io_error(e),
                                               !.readyErr = map_io_error(e),
                                               !.pc = "unlock"]]
          /\ UNCHANGED fds
    /\ UNCHANGED <<units, platform, variant, HAS_GETRANDOM, GETRANDOM_FN, FD, MUTEX,
                   pollOk, probeStored, probeResults, observed, getrandomLog>>

\* wait_until_rng_ready: one libc::poll of the /dev/random descriptor
Poll(t) ==
    /\ th[t].pc = "poll"
    /\ \E ret \in {-1, 1}, errno \in PollErrnos :
         LET s == poll_step(ret, errno) IN
         /\ pollOk' = (pollOk \/ ret >= 0)
         /\ th' = [th EXCEPT ![t] =
                    IF s.out = "ready" THEN Did([@ EXCEPT !.pc = "close_random"], "poll")
                    ELSE IF s.out = "again" THEN Did(@, "poll")
                    ELSE Did([@ EXCEPT !.res = s.err, !.readyErr = s.err,
                                       !.pc = "close_random"], "poll")]
    /\ UNCHANGED <<units, platform, variant, HAS_GETRANDOM, GETRANDOM_FN, FD, MUTEX, fds,
                   probeStored, probeResults, observed, getrandomLog>>

\* wait_until_rng_ready returns: `file` is dropped, closing /dev/random
CloseRandom(t) ==
    /\ th[t].pc = "close_random"
    /\ fds' = drop_file(fds, th[t].rfd)
    /\ th' = [th EXCEPT ![t] =
                Did([@ EXCEPT !.rfd = FD_UNINIT,
                              !.pc = IF th[t].res = 0 THEN "open_urandom"
                                     ELSE "unlock"],
                    "close_random")]
    /\ UNCHANGED <<units, platform, variant, HAS_GETRANDOM, GETRANDOM_FN, FD, MUTEX,
                   pollOk, probeStored, probeResults, observed, getrandomLog>>

\* get_fd_locked: File::open(FILE_PATH) and into_raw_fd
OpenUrandom(t) ==
    /\ th[t].pc = "open_urandom"
    /\ \/ LET n == lowest_free(fds) IN
          /\ fds' = into_raw_fd(fds \cup {[fd |-> n, path |-> "/dev/urandom"]}, n)
          /\ th' = [th EXCEPT ![t] = Did([@ EXCEPT !.fd = n, !.pc = "store_fd"],
                                         "open_urandom")]
       \/ \E e \in OpenErrors :
          /\ th' = [th EXCEPT ![t] = [@ EXCEPT !.res = map_io_error(e), !.pc = "unlock"]]
          /\ UNCHANGED fds
    /\ UNCHANGED <<units, platform, variant, HAS_GETRANDOM, GETRANDOM_FN, FD, MUTEX,
                   pollOk, probeStored, probeResults, observed, getrandomLog>>

\* get_fd_locked: FD.store(fd, Release)
StoreFd(t) ==
    /\ th[t].pc = "store_fd"
    /\ FD' = atomic_store(FD, th[t].fd)
    /\ th' = [th EXCEPT ![t] = Did([@ EXCEPT !.pc = "unlock"], "store_fd")]
    /\ UNCHANGED <<units, platform, variant, HAS_GETRANDOM, GETRANDOM_FN, MUTEX, fds,
                   pollOk, probeStored, probeResults, observed, getrandomLog>>

\* get_fd_locked returns: the DropGuard unlocks; `?` in getrandom_inner
Unlock(t) ==
    /\ th[t].pc = "unlock"
    /\ MUTEX' = unlock_guard(MUTEX, th[t].res)
    /\ th' = [th EXCEPT ![t] =
                IF @.res = 0 THEN EnterFill(@, "fill_file") ELSE Finish(@, @.res)]
    /\ UNCHANGED <<units, platform, variant, HAS_GETRANDOM, GETRANDOM_FN, FD, fds,
                   pollOk, probeStored, probeResults, observed, getrandomLog>>

\* one attempt of sys_fill_exact: getrandom(buf) or read(fd, buf), and the match on it
Attempt(t) ==
    /\ th[t].pc \in {"fill_sys", "fill_file"}
    /\ \E ret \in FillRets(th[t].buf), errno \in FillErrnos(th[t].pc) :
         LET f == th[t]
             s == sys_fill_step(f.buf, ret, errno)
             g == [f EXCEPT
                     !.buf = s.buf,
                     !.mem = IF ret > 0
                             THEN write_bytes(f.mem, f.buf.ptr - f.dest.ptr,
                                              Min(ret, f.buf.len))
                             ELSE f.mem,
                     !.nwritten = IF ret > 0 THEN @ + ret ELSE @,
                     !.last = Some(attempt_call(ret, errno)),
                     !.eff = @ \cup {IF f.pc = "fill_sys" THEN "getrandom" ELSE "read"}]
         IN /\ th' = [th EXCEPT ![t] = fill_result(g, s)]
            /\ getrandomLog' = IF f.pc = "fill_sys"
                               THEN Invoked(getrandomLog, ret, errno)
                               ELSE getrandomLog
    /\ UNCHANGED <<units, platform, variant, HAS_GETRANDOM, GETRANDOM_FN, FD, MUTEX, fds,
                   pollOk, probeStored, probeResults, observed>>

\* the caller takes the result; the thread is free for its next call
Return(t) ==
    /\ th[t].pc = "done"
    /\ th' = [th EXCEPT ![t] = Idle]
    /\ UNCHANGED <<units, platform, variant, HAS_GETRANDOM, GETRANDOM_FN, FD, MUTEX, fds,
                   pollOk, probeStored, probeResults, observed, getrandomLog>>

Step(t) ==
    \/ RunInit(t)
    \/ StoreVal(t)
    \/ GetFd(t)
    \/ Lock(t)
    \/ LockedGetFd(t)
    \/ OpenRandom(t)
    \/ Poll(t)
    \/ CloseRandom(t)
    \/ OpenUrandom(t)
    \/ StoreFd(t)
    \/ Unlock(t)
    \/ Attempt(t)
    \/ Return(t)

\* any number of threads call getrandom_uninit concurrently
Next == \E t \in Threads : Call(t, {"getrandom_uninit"}, ConcLen) \/ Step(t)

Spec == Init /\ [][Next]_vars

\* one thread calls getrandom and getrandom_uninit, one call after the other
NextSeq == Call(1, Apis, MaxLen) \/ Step(1)

SpecSeq == Init /\ [][NextSeq]_vars

\* ------------------------------------------- sys_fill_exact over a mock
\* what the mock sys_fill can answer
MockErrnos == {-1, 0, EINTR, EIO}

\* the bytes of a buffer that have been written
CountW(mem) == Cardinality({i \in DOMAIN mem : mem[i] = "W"})

\* the chunk sizes of ks under which an attempt on rem bytes returns ret
chunk_sizes(ks, rem, ret) == {k \in ks : ret = Min(k, rem)}

\* sys_fill_exact leaves its loop: Ok, Err, or on to the next attempt; a
\* panic would unwind out of it
loop_result(f, s) ==
    IF s.out = "ok" THEN [f EXCEPT !.pc = "done", !.res = 0]
    ELSE IF s.out = "err" THEN [f EXCEPT !.pc = "done", !.res = s.err]
    ELSE IF s.out = "panic" THEN [f EXCEPT !.pc = "panicked"]
    ELSE f

\* sys_fill_exact(buf, sys_fill) is called: `while !buf.is_empty()`
FillCall ==
    /\ fill.pc = "idle"
    /\ \E n \in 0..FillLen :
         LET d == Slice(DestAddr(1), n) IN
         fill' = [IdleFill EXCEPT !.dest = d, !.buf = d,
                                  !.mem = [i \in 1..n |-> "U"],
                                  !.ks = 1..(FillLen + 1),
                                  !.pc = IF is_empty(d) THEN "done" ELSE "attempt"]
    /\ UNCHANGED except_fill

\* one iteration: res = sys_fill(buf) and the match on it
MockAttempt ==
    /\ fill.pc = "attempt"
    /\ \E ret \in FillRets(fill.buf), errno \in MockErrnos :
         LET interrupted == ret = -1 /\ errno = EINTR
             off == fill.buf.ptr - fill.dest.ptr
             s == sys_fill_step(fill.buf, ret, errno)
         IN /\ interrupted => fill.eintrs < MaxEintr
            /\ fill' = loop_result(
                  [fill EXCEPT
                     !.buf = s.buf,
                     !.mem = IF ret > 0
                             THEN write_bytes(@, off, Min(ret, fill.buf.len))
                             ELSE @,
                     !.tries = @ + 1,
                     !.eintrs = IF interrupted THEN @ + 1 ELSE @,
                     !.last = Some([off |-> off, len |-> fill.buf.len, ret |-> ret,
                                    errno |-> IF ret = -1 THEN errno ELSE 0]),
                     !.ks = IF interrupted THEN @
                            ELSE chunk_sizes(@, fill.buf.len, ret),
                     !.exact = /\ @
                               /\ ~is_empty(fill.buf)
                               /\ off = CountW(fill.mem)
                               /\ fill.buf.len = fill.dest.len - CountW(fill.mem)],
                  s)
    /\ UNCHANGED except_fill

\* the caller takes the Result
FillReturn ==
    /\ fill.pc \in {"done", "panicked"}
    /\ fill' = IdleFill
    /\ UNCHANGED except_fill

NextFill == FillCall \/ MockAttempt \/ FillReturn

SpecFill == Init /\ [][NextFill]_vars

\* sys_fill returns, and the loop goes on, whenever the call is in the loop;
\* the interruptions of one call come to an end (MaxEintr)
SpecFillLive == SpecFill /\ WF_vars(MockAttempt)

\* ------------------------------------------------------- Error values
\* errno values the OS can leave: none, not positive, small, the largest
ErrnoInputs == {-1, 0} \cup 1..MaxErrno \cup {I32_MAX}

\* codes handed to from_os_error: negated errnos, zero, positive, the smallest
OsCodeInputs == {0 - e : e \in 1..MaxErrno} \cup {0, 2, I32_MAX, 0 - I32_MAX, i32_MIN}

\* u16 arguments of new_internal / new_custom: the low and the high end
U16Inputs == 0..MaxCode \cup (U16_MAX - MaxCode)..U16_MAX

\* an Error value as built, with what raw_os_error() makes of it
ErrorValue(kind, arg, code) ==
    [kind |-> kind, arg |-> arg, code |-> code, raw |-> raw_os_error(code)]

\* last_os_error() with errno = e
FromErrno(i) ==
    /\ \E e \in ErrnoInputs :
         errs' = [errs EXCEPT ![i] = ErrorValue("errno", e, last_os_error(e))]
    /\ UNCHANGED except_errs

\* Error::from_os_error(c)
FromOsError(i) ==
    /\ \E c \in OsCodeInputs :
         errs' = [errs EXCEPT ![i] = ErrorValue("os", c, from_os_error(c))]
    /\ UNCHANGED except_errs

\* Error::new_internal(n)
NewInternal(i) ==
    /\ \E n \in U16Inputs :
         errs' = [errs EXCEPT ![i] = ErrorValue("internal", n, new_internal(n))]
    /\ UNCHANGED except_errs

\* Error::new_custom(n)
NewCustom(i) ==
    /\ \E n \in U16Inputs :
         errs' = [errs EXCEPT ![i] = ErrorValue("custom", n, new_custom(n))]
    /\ UNCHANGED except_errs

NextErr == \E i \in Slots : FromErrno(i) \/ FromOsError(i) \/ NewInternal(i) \/ NewCustom(i)

SpecErr == Init /\ [][NextErr]_vars

\* the OS answers in the end: a poll is not interrupted forever and a fill
\* attempt does not go on being interrupted or short forever; a thread that
\* is scheduled takes its next step, and a thread waiting for a mutex that
\* is released again and again gets it

(***************************************************************************)
(* A registered custom implementation: register_custom_getrandom! and the  *)
(* getrandom_inner that calls it through the extern "C" __getrandom_custom *)
(***************************************************************************)

\* the functions registered in the sources: the documentation's always_fail
\* (with any Error), and the two test implementations
CustomRngs == {"failing_rng", "mock_rng", "super_insecure_rng"}

LEN7_CODE == CUSTOM_START2 + LEN7
len7_err == INTERNAL_START2 + LEN7

\* the codes of the Errors a registered function may return: nonzero u32
FailCodes == {1, EIO, len7_err, LEN7_CODE, CUSTOM_START2 + U16_MAX, I32_MAX}

\* the registered function run on a slice of len bytes with COUNTER = c:
\* its Result, the bytes it wrote and the new COUNTER; both test
\* implementations assert that the slice is not empty
run_rng(rng, len, c, e) ==
    IF rng = "failing_rng"
    THEN [panic |-> FALSE, res |-> Err(e), bytes |-> <<>>, c |-> c]
    ELSE IF len = 0 THEN [panic |-> TRUE, res |-> Ok, bytes |-> <<>>, c |-> c]
    ELSE IF rng = "mock_rng"
    THEN IF len = LEN7
         THEN [panic |-> FALSE, res |-> Err(LEN7_CODE), bytes |-> <<>>, c |-> c]
         ELSE [panic |-> FALSE, res |-> Ok,
               bytes |-> [i \in 1..len |-> FILL_BYTE], c |-> c]
    ELSE IF len = LEN7
         THEN [panic |-> FALSE, res |-> Err(len7_err), bytes |-> <<>>, c |-> c]
         ELSE [panic |-> FALSE, res |-> Ok,
               bytes |-> [i \in 1..len |-> (c + i - 1) % U8_MOD],
               c |-> (c + len) % U8_MOD]

\* mutant: the extern "C" function is given one byte less than the caller's
raw_parts_short(d) == Slice(d.ptr, d.len - 1)

\* (dest.as_mut_ptr(), dest.len()), made a slice again by from_raw_parts_mut
raw_parts(d) == Slice(d.ptr, d.len)

\* mutant: only the low 16 bits of the code cross
custom_shim_truncating(r) == IF r.ok THEN 0 ELSE r.code % (U16_MAX + 1)

\* __getrandom_custom's match on the registered function's Result
custom_shim(r) == IF r.ok THEN 0 ELSE r.code

\* getrandom_inner's match on NonZeroU32::new(ret)
custom_result(ret) == IF ret = 0 THEN Ok ELSE Err(ret)

\* the bytes written through a slice that starts off bytes into mem
store_at(mem, off, bytes) ==
    [i \in 1..Len(mem) |->
        IF off < i /\ i <= off + Len(bytes) THEN bytes[i - off] ELSE mem[i]]

\* register_custom_getrandom!($path)
RegisterCustom ==
    /\ cust.rng = "none"
    /\ \E r \in CustomRngs : cust' = [cust EXCEPT !.rng = r]
    /\ UNCHANGED except_cust

\* getrandom(&mut [0; n]) up to the extern call
CustCall ==
    /\ cust.rng # "none"
    /\ cust.pc = "idle"
    /\ \E n \in 0..MaxCustLen :
         LET d == slice_as_uninit_mut(Slice(DestAddr(1), n))
             f == [cust EXCEPT !.dest = d, !.mem = [i \in 1..n |-> 0],
                     !.prev = cust.mem, !.c0 = cust.COUNTER, !.calls = 0,
                     !.passed = None, !.wrote = <<>>, !.bres = None,
                     !.ret = None, !.res = None]
         IN cust' = IF needs_backend(d) THEN [f EXCEPT !.pc = "inner"]
                    ELSE [f EXCEPT !.pc = "done", !.res = Some(Ok)]
    /\ UNCHANGED except_cust

\* __getrandom_custom(dest.as_mut_ptr(), dest.len()): the registered function
\* runs on the slice and its Result is turned into the u32
CustBackend ==
    /\ cust.pc = "inner"
    /\ \E e \in FailCodes :
         LET sl == raw_parts(cust.dest)
             out == run_rng(cust.rng, sl.len, cust.COUNTER, e)
         IN cust' =
              IF out.panic
              THEN [cust EXCEPT !.pc = "panicked", !.calls = @ + 1,
                                !.passed = Some(sl)]
              ELSE [cust EXCEPT !.pc = "ret", !.calls = @ + 1,
                      !.passed = Some(sl), !.COUNTER = out.c,
                      !.wrote = out.bytes, !.bres = Some(out.res),
                      !.mem = store_at(@, sl.ptr - cust.dest.ptr, out.bytes),
                      !.ret = Some(custom_shim(out.res))]
    /\ UNCHANGED except_cust

\* getrandom_inner maps the u32 to its Result, which getrandom_uninit and
\* getrandom pass on
CustInner ==
    /\ cust.pc = "ret"
    /\ cust' = [cust EXCEPT !.pc = "done", !.res = Some(custom_result(cust.ret[1]))]
    /\ UNCHANGED except_cust

CustReturn ==
    /\ cust.pc = "done"
    /\ cust' = [cust EXCEPT !.pc = "idle"]
    /\ UNCHANGED except_cust

NextCustom == RegisterCustom \/ CustCall \/ CustBackend \/ CustInner \/ CustReturn

SpecCustom == Init /\ [][NextCustom]_vars


(***************************************************************************)
(* WASI preview 2: getrandom_inner over get_random_u64                     *)
(***************************************************************************)

\* values of get_random_u64()
Rand64 == {0, VAL_42, U8_MOD}

\* dest.align_to_mut::<MaybeUninit<u64>>(): the bytes before the first
\* aligned address, the whole words, and the bytes left over
align_to_mut(d) ==
    LET pre == Min(d.len, (U64_SIZE - (d.ptr % U64_SIZE)) % U64_SIZE)
    IN [pre |-> pre, chunks |-> (d.len - pre) \div U64_SIZE,
        suf |-> (d.len - pre) % U64_SIZE]

\* where getrandom_inner goes on after the prefix and after the chunks
after_prefix(w) ==
    IF w.i < w.parts.chunks THEN [w EXCEPT !.pc = "chunks"]
    ELSE IF w.parts.suf # 0 THEN [w EXCEPT !.pc = "suffix"]
    ELSE [w EXCEPT !.pc = "done", !.res = Some(Ok)]

\* fill_uninit(dest) up to align_to_mut
WasiCall ==
    /\ wasi.pc = "idle"
    /\ \E n \in 0..MaxWasiLen, o \in 0..(U64_SIZE - 1) :
         LET d == Slice(DestAddr(U64_SIZE) + o, n)
             w == [IdleWasi EXCEPT !.dest = d, !.mem = [i \in 1..n |-> "U"]]
         IN wasi' = IF ~needs_backend(d) THEN [w EXCEPT !.pc = "done", !.res = Some(Ok)]
                    ELSE LET a == align_to_mut(d)
                         IN IF a.pre # 0 THEN [w EXCEPT !.pc = "prefix", !.parts = a]
                            ELSE after_prefix([w EXCEPT !.parts = a])
    /\ UNCHANGED except_wasi

\* if !prefix.is_empty() { val = get_random_u64(); if val == 42 { panic!() } copy }
WasiPrefix ==
    /\ wasi.pc = "prefix"
    /\ \E val \in Rand64 :
         wasi' = IF val = VAL_42 THEN [wasi EXCEPT !.pc = "panicked"]
                 ELSE after_prefix([wasi EXCEPT !.mem = write_bytes(@, 0, wasi.parts.pre)])
    /\ UNCHANGED except_wasi

\* for dst in chunks { dst.write(get_random_u64()) }: one iteration
WasiChunk ==
    /\ wasi.pc = "chunks"
    /\ \E val \in Rand64 :
         wasi' = after_prefix([wasi EXCEPT
                    !.mem = write_bytes(@, wasi.parts.pre + U64_SIZE * wasi.i, U64_SIZE),
                    !.i = @ + 1])
    /\ UNCHANGED except_wasi

\* if !suffix.is_empty() { val = get_random_u64(); copy }; Ok(())
WasiSuffix ==
    /\ wasi.pc = "suffix"
    /\ \E val \in Rand64 :
         wasi' = [wasi EXCEPT
                    !.mem = write_bytes(@, wasi.dest.len - wasi.parts.suf, wasi.parts.suf),
                    !.pc = "done", !.res = Some(Ok)]
    /\ UNCHANGED except_wasi

WasiReturn ==
    /\ wasi.pc = "done"
    /\ wasi' = IdleWasi
    /\ UNCHANGED except_wasi

NextWasi == WasiCall \/ WasiPrefix \/ WasiChunk \/ WasiSuffix \/ WasiReturn

SpecWasi == Init /\ [][NextWasi]_vars


(***************************************************************************)
(* linux_android.rs: getrandom with a file fallback, selected through      *)
(* RNG_STATE                                                               *)
(***************************************************************************)

\* state & bit != 0
has_bit(state, bit) == (state \div bit) % 2 = 1

\* where a call goes for a loaded state: use_syscall, use_fd, or else
state_dispatch(state, else) ==
    IF has_bit(state, STATE_USE_SYSCALL) THEN "use_syscall"
    ELSE IF has_bit(state, STATE_USE_FD) THEN "use_fd"
    ELSE else

\* getrandom_inner: RNG_STATE.load and the dispatch on it
LaCall(t) ==
    /\ la.th[t].pc = "idle"
    /\ \E n \in 1..MaxLen :
         la' = [la EXCEPT !.th[t] = [pc |-> state_dispatch(la.RNG_STATE, "init_loop"),
                                    n |-> n, rfd |-> FD_UNINIT, res |-> 0]]
    /\ UNCHANGED except_la

\* init_loop: RNG_STATE.fetch_or(STATE_INIT_ONGOING); the thread yields and
\* tries again when another initialization is going on
LaInitLoop(t) ==
    /\ la.th[t].pc = "init_loop"
    /\ ~has_bit(la.RNG_STATE, STATE_INIT_ONGOING)
    /\ la' = [la EXCEPT !.RNG_STATE = @ + STATE_INIT_ONGOING,
                        !.th[t].pc = state_dispatch(la.RNG_STATE, "init")]
    /\ UNCHANGED except_la

\* init: use_syscall(&mut []) and the match on its result
LaInit(t) ==
    /\ la.th[t].pc = "init"
    /\ \E e \in ProbeErrnos \ {EINTR} :
         la' = IF e = 0
               THEN [la EXCEPT !.RNG_STATE = STATE_USE_SYSCALL,
                               !.th[t].pc = "use_syscall"]
               ELSE IF e = ENOSYS THEN [la EXCEPT !.th[t].pc = "open_random"]
               ELSE [la EXCEPT !.th[t].pc = "done", !.th[t].res = e]
    /\ UNCHANGED except_la

\* init_fd: File::open("/dev/random")?; on failure init stores 0 and returns
LaOpenRandom(t) ==
    /\ la.th[t].pc = "open_random"
    /\ \E e \in {0, EIO} :
         la' = IF e = 0
               THEN LET d == lowest_free(la.fds) IN
                    [la EXCEPT !.fds = @ \cup {[fd |-> d, path |-> "/dev/random"]},
                               !.th[t].rfd = d, !.th[t].pc = "read_random"]
               ELSE [la EXCEPT !.RNG_STATE = 0, !.th[t].pc = "done", !.th[t].res = e]
    /\ UNCHANGED except_la

\* init_fd: .read_exact(&mut [0u8; 1])?, after which the File is dropped
LaReadRandom(t) ==
    /\ la.th[t].pc = "read_random"
    /\ \E e \in {0, EIO} :
         la' = IF e = 0
               THEN [la EXCEPT !.fds = drop_file(@, la.th[t].rfd), !.readRandom = TRUE,
                               !.th[t].rfd = FD_UNINIT, !.th[t].pc = "open_urandom"]
               ELSE [la EXCEPT !.fds = drop_file(@, la.th[t].rfd), !.RNG_STATE = 0,
                               !.th[t].rfd = FD_UNINIT,
                               !.th[t].pc = "done", !.th[t].res = e]
    /\ UNCHANGED except_la

\* init_fd: File::open("/dev/urandom")?, as_raw_fd, mem::forget; then init
\* stores RNG_FD and STATE_USE_FD
LaOpenUrandom(t) ==
    /\ la.th[t].pc = "open_urandom"
    /\ \E e \in {0, EIO} :
         la' = IF e = 0
               THEN LET d == lowest_free(la.fds) IN
                    [la EXCEPT !.fds = @ \cup {[fd |-> d, path |-> "/dev/urandom"]},
                               !.RNG_FD = d, !.RNG_STATE = STATE_USE_FD,
                               !.th[t].pc = "use_fd"]
               ELSE [la EXCEPT !.RNG_STATE = 0, !.th[t].pc = "done", !.th[t].res = e]
    /\ UNCHANGED except_la

\* use_syscall(dest): Ok only when the syscall returned dest.len();
\* use_fd(dest): read_exact on RNG_FD
LaFill(t) ==
    /\ la.th[t].pc \in {"use_syscall", "use_fd"}
    /\ \E e \in {0, EPERM, EIO} :
         la' = [la EXCEPT !.th[t].pc = "done", !.th[t].res = e]
    /\ UNCHANGED except_la

LaReturn(t) ==
    /\ la.th[t].pc = "done"
    /\ la' = [la EXCEPT !.th[t].pc = "idle"]
    /\ UNCHANGED except_la

NextLa ==
    \E t \in Threads :
        \/ LaCall(t) \/ LaInitLoop(t) \/ LaInit(t) \/ LaOpenRandom(t)
        \/ LaReadRandom(t) \/ LaOpenUrandom(t) \/ LaFill(t) \/ LaReturn(t)

SpecLa == Init /\ [][NextLa]_vars

\* every thread is scheduled again and again (init_loop yields with
\* thread::yield_now), and the OS answers every syscall, open and read
SpecLaLive ==
    SpecLa /\ \A t \in Threads :
                 WF_vars(\/ LaInitLoop(t) \/ LaInit(t) \/ LaOpenRandom(t)
                         \/ LaReadRandom(t) \/ LaOpenUrandom(t) \/ LaFill(t)
                         \/ LaReturn(t))


(***************************************************************************)
(* The lazily initialized statics: LazyUsize and LazyPtr of lazy.rs,       *)
(* LazyPtr of utils/lazy_ptr.rs                                            *)
(***************************************************************************)

CacheKinds == {"LazyUsize", "LazyPtr", "utils::LazyPtr"}

\* the word of a cache that holds nothing: UNINIT, or the null pointer
sentinel(kind) == IF kind = "utils::LazyPtr" THEN 0 ELSE UNINIT

\* the Ordering of the load in unsync_init / try_unsync_init
load_ordering(kind) == IF kind = "LazyPtr" THEN "Acquire" ELSE "Relaxed"

\* mutant: every cache stores with Relaxed
store_ordering_relaxed(kind) == "Relaxed"

\* the Ordering of the store in do_init / cold_init
store_ordering(kind) == IF kind = "LazyPtr" THEN "Release" ELSE "Relaxed"

\* what init() can return: a pointer, or with try_unsync_init an error
init_results(kind) ==
    {[ok |-> TRUE, code |-> 0, val |-> GETRANDOM_ADDR]}
        \cup IF kind = "utils::LazyPtr"
             THEN {[ok |-> FALSE, code |-> UNEXPECTED, val |-> 0]} ELSE {}

\* mutant: cold_init stores whatever init() left behind, also after an error
cold_init_always(word, r) == IF r.ok THEN r.val ELSE 1

\* do_init / cold_init: the word after init() returned r (`init()?` leaves
\* before the store)
cold_init(word, r) == IF r.ok THEN r.val ELSE word

\* a static of one of the three types
LazyNew ==
    /\ ext.lazy.kind = "none"
    /\ \E k \in CacheKinds :
         ext' = [ext EXCEPT !.lazy.kind = k, !.lazy.word = sentinel(k)]
    /\ UNCHANGED except_ext

\* unsync_init / try_unsync_init: the load and the test on it
LazyLoad(t) ==
    /\ ext.lazy.kind # "none"
    /\ ext.lazy.th[t].pc = "idle"
    /\ ext' = [ext EXCEPT !.lazy.th[t] =
                 IF ext.lazy.word # sentinel(ext.lazy.kind)
                 THEN [pc |-> "use", val |-> ext.lazy.word, ran |-> FALSE,
                       res |-> Some(Ok), seen |-> None]
                 ELSE [pc |-> "init", val |-> 0, ran |-> FALSE, res |-> None,
                       seen |-> None]]
    /\ UNCHANGED except_ext

\* do_init / cold_init: init() runs (and writes the data behind the pointer),
\* then its value is stored
LazyInit(t) ==
    /\ ext.lazy.th[t].pc = "init"
    /\ \E r \in init_results(ext.lazy.kind) :
         ext' = [ext EXCEPT
                   !.lazy.word = cold_init(@, r),
                   !.lazy.made = IF r.ok THEN @ \cup {r.val} ELSE @,
                   !.lazy.th[t] = [pc |-> IF r.ok THEN "use" ELSE "done",
                                   val |-> r.val, ran |-> TRUE,
                                   res |-> Some([ok |-> r.ok, code |-> r.code]),
                                   seen |-> None]]
    /\ UNCHANGED except_ext

\* the caller reads the data behind the value it obtained: its own writes
\* are there; those of another thread's init() are certain to be there only
\* when the Release store synchronizes with the Acquire load
LazyUse(t) ==
    /\ ext.lazy.th[t].pc = "use"
    /\ \E b \in BOOLEAN :
         /\ b \/ ~(\/ ext.lazy.th[t].ran
                   \/ /\ store_ordering(ext.lazy.kind) = "Release"
                      /\ load_ordering(ext.lazy.kind) = "Acquire")
         /\ ext' = [ext EXCEPT !.lazy.th[t].pc = "done", !.lazy.th[t].seen = Some(b)]
    /\ UNCHANGED except_ext

LazyReturn(t) ==
    /\ ext.lazy.th[t].pc = "done"
    /\ ext' = [ext EXCEPT !.lazy.th[t].pc = "idle"]
    /\ UNCHANGED except_ext

NextLazy ==
    \/ LazyNew
    \/ \E t \in Threads : LazyLoad(t) \/ LazyInit(t) \/ LazyUse(t) \/ LazyReturn(t)

SpecLazy == Init /\ [][NextLazy]_vars


(***************************************************************************)
(* netbsd.rs: getrandom(2) found through dlsym, or the KERN_ARND polyfill  *)
(***************************************************************************)

\* mutant: init stores its pointer whatever GETRANDOM holds, and uses it
compare_exchange_store(cell, current, new) == [cell |-> new, res |-> current]

\* AtomicPtr::compare_exchange(current, new): the cell afterwards, and the
\* pointer that Ok or Err carries (what the cell held)
compare_exchange(cell, current, new) ==
    [cell |-> IF cell = current THEN new ELSE cell, res |-> cell]

\* getrandom_inner: GETRANDOM.load(Acquire) and the null test
NbCall(t) ==
    /\ ext.netbsd.th[t].pc = "idle"
    /\ ext' = [ext EXCEPT !.netbsd.th[t] =
                 [pc |-> IF ext.netbsd.GETRANDOM = "null" THEN "init" ELSE "fill",
                  ptr |-> "null", fptr |-> ext.netbsd.GETRANDOM]]
    /\ UNCHANGED except_ext

\* init: dlsym(RTLD_DEFAULT, "getrandom"), and the polyfill when it is null
NbDlsym(t) ==
    /\ ext.netbsd.th[t].pc = "init"
    /\ \E found \in {"null", "getrandom"} :
         ext' = [ext EXCEPT !.netbsd.th[t].pc = "cas",
                            !.netbsd.th[t].ptr =
                               IF found = "null" THEN "polyfill_using_kern_arand"
                               ELSE found]
    /\ UNCHANGED except_ext

\* init: GETRANDOM.compare_exchange(null, ptr); Ok(_) => ptr,
\* Err(previously_stored) => previously_stored
NbCas(t) ==
    /\ ext.netbsd.th[t].pc = "cas"
    /\ LET x == compare_exchange(ext.netbsd.GETRANDOM, "null", ext.netbsd.th[t].ptr) IN
         ext' = [ext EXCEPT !.netbsd.GETRANDOM = x.cell,
                            !.netbsd.th[t].pc = "fill",
                            !.netbsd.th[t].fptr =
                               IF x.res = "null" THEN ext.netbsd.th[t].ptr ELSE x.res]
    /\ UNCHANGED except_ext

\* sys_fill_exact(dest, |buf| fptr(buf, len, 0)), and the return
NbFill(t) ==
    /\ ext.netbsd.th[t].pc = "fill"
    /\ ext' = [ext EXCEPT !.netbsd.used = @ \cup {ext.netbsd.th[t].fptr},
                          !.netbsd.th[t].pc = "idle"]
    /\ UNCHANGED except_ext

NextNetbsd == \E t \in Threads : NbCall(t) \/ NbDlsym(t) \/ NbCas(t) \/ NbFill(t)

SpecNetbsd == Init /\ [][NextNetbsd]_vars


(***************************************************************************)
(* backends/linux_raw.rs: fill_inner over the raw getrandom syscall, next  *)
(* to sys_fill_exact over the same syscall behind libc                     *)
(***************************************************************************)

\* what the kernel can return for a span: -errno, 0, a count up to one past
\* the span's length
KernelRets(b) == {0 - e : e \in 1..MaxErrno} \cup 0..(b.len + 1)

\* the libc wrapper of a syscall: -1 with errno set on failure, otherwise
\* the kernel's result
libc_syscall(k) == IF k < 0 THEN [ret |-> -1, errno |-> 0 - k] ELSE [ret |-> k, errno |-> 0]

\* one iteration of fill_inner's loop, given what getrandom_syscall returned:
\* the match on usize::try_from(ret); `code` is ret.wrapping_neg() as a u32
\* (the try_into fails for a negative value)
raw_fill_step(b, ret) ==
    IF ret >= 0
    THEN IF ret = 0 THEN [out |-> "err", err |-> UNEXPECTED, buf |-> b]
         ELSE LET r == get_mut_from(b, ret) IN
              IF r = None THEN [out |-> "err", err |-> UNEXPECTED, buf |-> b]
              ELSE IF is_empty(r[1]) THEN [out |-> "ok", err |-> 0, buf |-> r[1]]
              ELSE [out |-> "again", err |-> 0, buf |-> r[1]]
    ELSE IF ret = 0 - EINTR THEN [out |-> "again", err |-> 0, buf |-> b]
    ELSE LET code == 0 - ret IN
         IF code < 0 THEN [out |-> "err", err |-> UNEXPECTED, buf |-> b]
         ELSE [out |-> "err", err |-> from_os_error(code), buf |-> b]

\* both loops are entered with the same non-empty destination
LoopsCall ==
    /\ ext.loops.pc = "idle"
    /\ \E n \in 1..MaxLen :
         ext' = [ext EXCEPT !.loops =
                   [pc |-> "attempt", dest |-> Slice(0, n), k |-> None,
                    raw |-> [out |-> "again", err |-> 0, buf |-> Slice(0, n)],
                    libc |-> [out |-> "again", err |-> 0, buf |-> Slice(0, n)]]]
    /\ UNCHANGED except_ext

\* the kernel answers k; fill_inner sees k, sys_fill_exact sees what the libc
\* wrapper makes of it; the run goes on while both loops go on
LoopsAttempt ==
    /\ ext.loops.pc = "attempt"
    /\ \E k \in KernelRets(ext.loops.raw.buf) :
         LET a == raw_fill_step(ext.loops.raw.buf, k)
             c == sys_fill_step(ext.loops.libc.buf, libc_syscall(k).ret,
                                libc_syscall(k).errno)
         IN ext' = [ext EXCEPT !.loops.k = Some(k), !.loops.raw = a, !.loops.libc = c,
                               !.loops.pc = IF a.out = "again" /\ c.out = "again"
                                            THEN "attempt" ELSE "done"]
    /\ UNCHANGED except_ext

LoopsReturn ==
    /\ ext.loops.pc = "done"
    /\ ext' = [ext EXCEPT !.loops.pc = "idle"]
    /\ UNCHANGED except_ext

NextLoops == LoopsCall \/ LoopsAttempt \/ LoopsReturn

SpecLoops == Init /\ [][NextLoops]_vars


(***************************************************************************)
(* rdrand.rs: words from the RDRAND instruction                            *)
(***************************************************************************)

\* mutant: a read that reports success is taken as it is
rdrand_try_unchecked(i, cf, el) ==
    IF cf = 1 THEN "word"
    ELSE IF i + 1 < RETRY_LIMIT THEN "again" ELSE "FAILED_RDRAND"

\* iteration i of `for _ in 0..RETRY_LIMIT` in rdrand(), given what
\* rdrand_step returned (cf) and left in el
rdrand_try(i, cf, el) ==
    IF cf = 1 /\ el # 0 /\ el # USIZE_MAX THEN "word"
    ELSE IF i + 1 < RETRY_LIMIT THEN "again" ELSE "FAILED_RDRAND"

\* rdrand_exact(dst, len): `while len >= WORD_SIZE`, `if len != 0`
RdCall ==
    /\ ext.rdrand.pc = "idle"
    /\ \E n \in 0..MaxRdLen :
         ext' = [ext EXCEPT !.rdrand =
                   [pc |-> IF n = 0 THEN "done" ELSE "rdrand", len |-> n, tries |-> 0,
                    reads |-> 0, mem |-> <<>>,
                    res |-> IF n = 0 THEN Some("Ok") ELSE None]]
    /\ UNCHANGED except_ext

\* one rdrand_step of rdrand(), and what rdrand_exact does with the Result
\* when rdrand() returns: `?`, or the write of a whole word or of the tail
RdStep ==
    /\ ext.rdrand.pc = "rdrand"
    /\ \E cf \in {0, 1}, el \in {0, 1, USIZE_MAX} :
         LET d == ext.rdrand
             r == rdrand_try(d.tries, cf, el)
             n == Min(d.len, WORD_SIZE)
         IN ext' = [ext EXCEPT !.rdrand =
              IF r = "again"
              THEN [d EXCEPT !.tries = @ + 1, !.reads = @ + 1]
              ELSE IF r = "word"
              THEN [d EXCEPT !.tries = IF d.len - n = 0 THEN @ + 1 ELSE 0,
                             !.reads = @ + 1,
                             !.mem = Append(@, [el |-> el, cf |-> cf, n |-> n]),
                             !.len = @ - n,
                             !.pc = IF d.len - n = 0 THEN "done" ELSE "rdrand",
                             !.res = IF d.len - n = 0 THEN Some("Ok") ELSE None]
              ELSE [d EXCEPT !.tries = @ + 1, !.reads = @ + 1, !.pc = "done",
                             !.res = Some(r)]]
    /\ UNCHANGED except_ext

RdReturn ==
    /\ ext.rdrand.pc = "done"
    /\ ext' = [ext EXCEPT !.rdrand.pc = "idle"]
    /\ UNCHANGED except_ext

NextRd == RdCall \/ RdStep \/ RdReturn

SpecRd == Init /\ [][NextRd]_vars

\* the instruction returns, and the loop takes its next turn
SpecRdLive == SpecRd /\ WF_vars(RdStep)

Fair(t) ==
    /\ WF_vars(Step(t))
    /\ WF_vars(Poll(t) /\ th'[t].pc # "poll")
    /\ WF_vars(Attempt(t) /\ th'[t].pc = "done")
    /\ SF_vars(Lock(t))

\* the Linux build whose backend is getrandom_inner over HAS_GETRANDOM
InitLive == Init /\ platform = "linux" /\ variant = "lazy_bool"

SpecLive == InitLive /\ [][Next]_vars /\ \A t \in Threads : Fair(t)

\* ================================================================ claims

\* C1: a call with an empty destination returns success in its first step and
\* has done nothing by then: no OS call, no probe, no open, no store to a
\* shared cell, no lock; this in every state of the shared cells.
C1_EmptyCallTouchesNothing ==
    \A t \in Threads :
        (th[t].pc # "idle" /\ is_empty(th[t].dest)) =>
            /\ th[t].pc = "done"
            /\ th[t].res = 0
            /\ th[t].eff = {}

\* an empty call has returned while the decision is unresolved, the descriptor
\* unset and another thread is in the middle of the open sequence
C1_Witness ==
    \E t, u \in Threads :
        /\ th[t].pc = "done" /\ is_empty(th[t].dest) /\ th[t].res = 0
        /\ th[u].pc = "poll"
        /\ FD = FD_UNINIT

\* C2: a call with a non-empty destination of N bytes that returns success has
\* had every byte written by the source, the byte counts of its successful
\* attempts summing to N; a call with fewer bytes written returns an error.
C2_SuccessMeansFullyWritten ==
    \A t \in Threads :
        (th[t].pc = "done" /\ ~is_empty(th[t].dest)) =>
            /\ th[t].res = 0 =>
                 /\ \A i \in DOMAIN th[t].mem : th[t].mem[i] = "W"
                 /\ th[t].nwritten = Len(th[t].mem)
            /\ (\/ th[t].nwritten < Len(th[t].mem)
                \/ \E i \in DOMAIN th[t].mem : th[t].mem[i] # "W") => th[t].res # 0

\* a successful fill of the longest buffer, served by the file fallback
C2_Witness ==
    \E t \in Threads :
        /\ th[t].pc = "done" /\ th[t].res = 0
        /\ Len(th[t].mem) = MaxLen
        /\ "read" \in th[t].eff

\* C3: on success getrandom_uninit returns a view that starts at dest's
\* address and has dest's length, for every length including 0.
C3_ViewIsDest ==
    \A t \in Threads :
        (th[t].pc = "done" /\ th[t].res = 0 /\ th[t].api = "getrandom_uninit") =>
            /\ th[t].view # None
            /\ th[t].view[1].ptr = DestAddr(t)
            /\ th[t].view[1].len = Len(th[t].mem)

\* getrandom_uninit has returned the view of a buffer it filled
C3_Witness ==
    \E t \in Threads :
        /\ th[t].pc = "done" /\ th[t].res = 0 /\ th[t].api = "getrandom_uninit"
        /\ Len(th[t].mem) = MaxLen
        /\ th[t].view = Some(Slice(DestAddr(t), MaxLen))

\* C4: within a call no initialized byte of dest becomes uninitialized again,
\* whatever the call returns.
C4_NeverDeinitialized ==
    [][\A t \in Threads : \A i \in DOMAIN th[t].mem :
          (th'[t].pc # "idle" /\ th[t].mem[i] # "U") =>
              (i \in DOMAIN th'[t].mem /\ th'[t].mem[i] # "U")]_vars

\* a call on caller-initialized memory has failed after a partial write
C4_Witness ==
    \E t \in Threads :
        /\ th[t].pc = "done" /\ th[t].res # 0 /\ th[t].api = "getrandom"
        /\ Len(th[t].mem) = MaxLen
        /\ th[t].mem[1] = "W" /\ th[t].mem[MaxLen] = "I"

\* the /dev/urandom descriptors the process holds
UrandomFds == {e \in fds : e.path = "/dev/urandom"}

C6_NoReprobe ==
    \A t \in Threads : th[t].late => "probe" \notin th[t].eff

\* C7: /dev/urandom is opened at most once process-wide, and every call that
\* reaches the read loop of the file fallback, on every thread, reads from
\* that one descriptor, the one stored in FD.
C7_OpenedOnce ==
    /\ Cardinality(UrandomFds) <= 1
    /\ FD # FD_UNINIT => UrandomFds = {[fd |-> FD, path |-> "/dev/urandom"]}
    /\ \A t \in Threads :
         (th[t].pc = "fill_file" \/ "read" \in th[t].eff) =>
             (FD # FD_UNINIT /\ th[t].fd = FD)

\* two threads read from the descriptor: one opened it, the other waited for
\* the mutex and found it stored
C7_Witness ==
    \E t, u \in Threads :
        /\ th[t].pc = "fill_file" /\ "store_fd" \in th[t].eff
        /\ th[u].pc = "fill_file" /\ "lock" \in th[u].eff
        /\ "open_urandom" \notin th[u].eff
        /\ th[t].fd = th[u].fd

\* C8: the process never holds more than one descriptor of the library,
\* counting /dev/random and /dev/urandom.
C8_AtMostOneDescriptor == Cardinality(fds) <= 1

\* /dev/random is open in the thread that holds the mutex while another
\* thread waits for the mutex
C8_Witness ==
    \E t, u \in Threads :
        /\ th[t].pc = "poll"
        /\ fds = {[fd |-> th[t].rfd, path |-> "/dev/random"]}
        /\ th[u].pc = "lock"

\* C9: no thread reads /dev/urandom before a readiness poll has succeeded in
\* the process; a call whose readiness step failed returns that error, has
\* not opened /dev/urandom and has produced no byte.
C9_PrimedBeforeRead ==
    \A t \in Threads :
        /\ (th[t].pc = "fill_file" \/ "read" \in th[t].eff) => pollOk
        /\ th[t].readyErr # 0 =>
             /\ th[t].pc \in {"close_random", "unlock", "done"}
             /\ th[t].res = th[t].readyErr
             /\ th[t].eff \cap {"open_urandom", "store_fd", "read", "getrandom"} = {}
             /\ \A i \in DOMAIN th[t].mem : th[t].mem[i] # "W"
             /\ th[t].view = None

\* a call has returned the error of a poll that failed for good, with the
\* descriptor still unset
C9_Witness ==
    \E t \in Threads :
        /\ th[t].pc = "done" /\ "poll" \in th[t].eff
        /\ th[t].res = last_os_error(EIO)
        /\ FD = FD_UNINIT

C11_ProbeMapping ==
    \A t \in Threads :
        th[t].probe # None =>
            LET p == th[t].probe[1]
                available == \/ p.ret >= 0
                             \/ p.errno \notin {ENOSYS, EPERM}
                             \/ p.errno = EPERM /\ platform = "android"
            IN /\ p.len = 0
               /\ available =>
                    /\ use_syscall(variant, th[t].val)
                    /\ th[t].pc \in {"store", "fill_sys", "done"}
                    /\ "read" \notin th[t].eff
               /\ ~available =>
                    /\ ~use_syscall(variant, th[t].val)
                    /\ th[t].pc # "fill_sys"
                    /\ "getrandom" \notin th[t].eff

\* on Android a probe that failed with EPERM has sent the call to getrandom
C11_Witness ==
    \E t \in Threads :
        /\ platform = "android"
        /\ th[t].probe = Some([len |-> 0, ret |-> -1, errno |-> EPERM])
        /\ th[t].pc = "fill_sys"

\* C12: while every lookup of getrandom has found the function and every
\* invocation of it has failed with ENOSYS, a call that has filled a
\* non-empty destination successfully implies that getrandom has been invoked
\* at least once, that /dev/urandom is open in the process, and that the
\* call's bytes came from reads of the file.
C12_ForcedFallback ==
    getrandomLog.forced =>
        \A t \in Threads :
            (th[t].pc = "done" /\ th[t].res = 0 /\ ~is_empty(th[t].dest)) =>
                /\ getrandomLog.called
                /\ UrandomFds # {}
                /\ "read" \in th[t].eff
                /\ "getrandom" \notin th[t].eff

\* the dlsym-based backend has filled a buffer from the file after its probe
\* through the looked-up function failed with ENOSYS
C12_Witness ==
    \E t \in Threads :
        /\ variant = "dlsym"
        /\ getrandomLog = [called |-> TRUE, forced |-> TRUE]
        /\ th[t].pc = "done" /\ th[t].res = 0 /\ ~is_empty(th[t].dest)
        /\ th[t].probe = Some([len |-> 0, ret |-> -1, errno |-> ENOSYS])

\* the steps of the file fallback's open sequence
OpenSequence == {"lock", "open_random", "poll", "close_random", "open_urandom",
                 "store_fd"}

\* C13: as long as every run of the probe has found getrandom available, no
\* call on any thread enters the file fallback: nothing is opened, the mutex
\* is never taken, the descriptor is never stored, no byte is read from a file.
C13_NoFallbackWhenAvailable ==
    probeResults \subseteq {TRUE} =>
        /\ fds = {}
        /\ FD = FD_UNINIT
        /\ MUTEX = 0
        /\ \A t \in Threads :
             /\ th[t].pc \in {"idle", "init", "store", "fill_sys", "done"}
             /\ th[t].eff \cap (OpenSequence \cup {"read"}) = {}

\* two threads raced through the probe, both found getrandom available, and
\* both are served by it
C13_Witness ==
    \E t, u \in Threads :
        /\ t # u
        /\ probeResults = {TRUE}
        /\ th[t].pc = "done" /\ th[t].res = 0 /\ {"probe", "getrandom"} \subseteq th[t].eff
        /\ th[u].pc = "fill_sys" /\ "probe" \in th[u].eff

\* C14: a call's attempts all go to one source, the one its decision value
\* selects: a call that has attempted getrandom never enters the file
\* fallback and a call that has read the file never attempts getrandom; a
\* getrandom attempt that fails with an errno other than EINTR (ENOSYS and
\* EPERM included) ends the call with the error of that errno.
C14_SourceFixedPerCall ==
    \A t \in Threads :
        /\ "getrandom" \in th[t].eff =>
             /\ use_syscall(variant, th[t].val)
             /\ th[t].pc \in {"fill_sys", "done"}
             /\ th[t].eff \cap (OpenSequence \cup {"read"}) = {}
        /\ "read" \in th[t].eff =>
             /\ ~use_syscall(variant, th[t].val)
             /\ th[t].pc \in {"fill_file", "done"}
        /\ ("getrandom" \in th[t].eff /\ th[t].last # None
                /\ th[t].last[1].ret = -1 /\ th[t].last[1].errno # EINTR) =>
             /\ th[t].pc = "done"
             /\ th[t].res = last_os_error(th[t].last[1].errno)
             /\ th[t].view = None

\* a call served by getrandom has returned ENOSYS after a partial write
C14_Witness ==
    \E t \in Threads :
        /\ th[t].pc = "done" /\ "getrandom" \in th[t].eff
        /\ th[t].last = Some([ret |-> -1, errno |-> ENOSYS])
        /\ th[t].nwritten > 0
        /\ raw_os_error(th[t].res) = Some(ENOSYS)

\* where a thread is while it holds MUTEX
Critical == {"locked", "open_random", "poll", "close_random", "open_urandom",
             "store_fd", "unlock"}

C16_FirstHardFailureSurfaced ==
    \A t \in Threads :
        (th[t].last # None /\ th[t].last[1].ret = -1 /\ th[t].last[1].errno # EINTR) =>
            LET e == th[t].last[1].errno IN
            /\ th[t].pc = "done"
            /\ th[t].view = None
            /\ IF e > 0 THEN th[t].res < 0 /\ raw_os_error(th[t].res) = Some(e)
                         ELSE th[t].res = ERRNO_NOT_POSITIVE

\* a read of the file failed with EIO after a partial fill, and the call
\* returned EIO
C16_Witness ==
    \E t \in Threads :
        /\ th[t].pc = "done" /\ "read" \in th[t].eff
        /\ th[t].last = Some([ret |-> -1, errno |-> EIO])
        /\ th[t].nwritten > 0
        /\ raw_os_error(th[t].res) = Some(EIO)

\* ceil(n / k)
Ceil(n, k) == (n + k - 1) \div k

\* C17: while every attempt so far has written min(k, remaining) bytes for
\* some k >= 1, each attempt was offered exactly the unwritten suffix of the
\* buffer, never empty; the fill then ends in success with all N bytes
\* written after exactly ceil(N/k) attempts, and not before.
C17_Chunking ==
    (fill.pc # "idle" /\ fill.ks # {} /\ fill.eintrs = 0) =>
        /\ fill.exact
        /\ fill.pc \in {"attempt", "done"}
        /\ fill.pc = "attempt" => \A k \in fill.ks : fill.tries < Ceil(fill.dest.len, k)
        /\ fill.pc = "done" =>
             /\ fill.res = 0
             /\ CountW(fill.mem) = fill.dest.len
             /\ \A k \in fill.ks : fill.tries = Ceil(fill.dest.len, k)

\* a 10-byte buffer has been filled by 3-byte writes in 4 attempts, the last
\* of 1 byte
C17_Witness ==
    /\ fill.pc = "done" /\ fill.res = 0
    /\ fill.dest.len = 10 /\ fill.ks = {3} /\ fill.tries = 4
    /\ fill.last = Some([off |-> 9, len |-> 1, ret |-> 1, errno |-> 0])

\* C18: an attempt that failed with EINTR leaves the loop running with the
\* cursor where it was, so that the next attempt is offered the same unwritten
\* suffix, and no error; a fill whose other attempts each wrote
\* min(k, remaining) bytes ends in success with all bytes written, after as
\* many attempts more as were interrupted, wherever the interruptions fell.
C18_InterruptedAbsorbed ==
    /\ (fill.last # None /\ fill.last[1].ret = -1 /\ fill.last[1].errno = EINTR) =>
          /\ fill.pc = "attempt"
          /\ fill.res = 0
          /\ fill.buf = Slice(fill.dest.ptr + fill.last[1].off, fill.last[1].len)
          /\ CountW(fill.mem) = fill.last[1].off
          /\ ~is_empty(fill.buf)
    /\ (fill.pc = "done" /\ fill.ks # {}) =>
          /\ fill.res = 0
          /\ CountW(fill.mem) = fill.dest.len
          /\ \A k \in fill.ks : fill.tries = fill.eintrs + Ceil(fill.dest.len, k)

\* a fill interrupted as often as the mock allows, in between chunks, has
\* succeeded
C18_Witness ==
    /\ fill.pc = "done" /\ fill.res = 0
    /\ fill.eintrs = MaxEintr
    /\ fill.ks = {3}
    /\ fill.tries = MaxEintr + Ceil(fill.dest.len, 3)
    /\ fill.dest.len > 3

\* C19: an attempt that returns 0, or a negative value other than -1, is the
\* last attempt, and sys_fill_exact returns Unexpected, full buffer or not.
C19_EofIsUnexpected ==
    (fill.last # None /\ (fill.last[1].ret = 0 \/ fill.last[1].ret < -1)) =>
        /\ fill.pc = "done"
        /\ fill.res = UNEXPECTED

\* a fill has ended in Unexpected on an attempt that returned 0 with the
\* buffer partly written
C19_Witness ==
    /\ fill.pc = "done" /\ fill.res = UNEXPECTED
    /\ fill.last # None /\ fill.last[1].ret = 0
    /\ 0 < CountW(fill.mem) /\ CountW(fill.mem) < fill.dest.len

\* C20: the remaining span always ends where the buffer ends and never
\* starts before it or past its end; an attempt that returns more than the
\* length of the span it was offered is the last attempt and sys_fill_exact
\* returns Unexpected, without a panic.
C20_OverlongIsUnexpected ==
    /\ fill.dest.ptr <= fill.buf.ptr
    /\ fill.buf.len >= 0
    /\ fill.buf.ptr + fill.buf.len = fill.dest.ptr + fill.dest.len
    /\ fill.pc # "panicked"
    /\ (fill.last # None /\ fill.last[1].ret > fill.last[1].len) =>
          /\ fill.pc = "done"
          /\ fill.res = UNEXPECTED

\* after a partial fill an attempt has reported one byte more than it was
\* offered
C20_Witness ==
    /\ fill.pc = "done" /\ fill.res = UNEXPECTED
    /\ fill.last # None /\ fill.last[1].off > 0
    /\ fill.last[1].ret = fill.last[1].len + 1

KindOf(code) ==
    IF code < 0 THEN "os"
    ELSE IF INTERNAL_START2 <= code /\ code < CUSTOM_START2 THEN "internal"
    ELSE IF CUSTOM_START2 <= code /\ code <= CUSTOM_START2 + U16_MAX THEN "custom"
    ELSE "unknown"

\* is this Error built from an OS error number (a positive errno, or its
\* negative code)?
FromOsNumber(e) ==
    \/ e.kind = "errno" /\ e.arg > 0
    \/ e.kind = "os" /\ e.arg < 0

\* C22: the codes of OS errors, internal errors and custom errors lie in
\* pairwise disjoint ranges, so that the range of a code tells its kind: an
\* internal and a custom error never have the same code, neither has the code
\* of an Error built from an OS error number, and two internal (two custom)
\* errors built from distinct u16 values have distinct codes.
C22_DisjointRanges ==
    \A i, j \in Slots :
        LET a == errs[i]
            b == errs[j]
        IN /\ a.kind \in {"internal", "custom"} => KindOf(a.code) = a.kind
           /\ FromOsNumber(a) => KindOf(a.code) = "os"
           /\ (a.kind = "internal" /\ b.kind = "custom") => a.code # b.code
           /\ (a.kind \in {"internal", "custom"} /\ FromOsNumber(b)) => a.code # b.code
           /\ (a.kind \in {"internal", "custom"} /\ a.kind = b.kind /\ a.arg # b.arg) =>
                 a.code # b.code

\* the last internal code and the first custom code are next to each other
C22_Witness ==
    /\ errs[1].kind = "internal" /\ errs[1].arg = U16_MAX
    /\ errs[2].kind = "custom" /\ errs[2].arg = 0
    /\ errs[1].code + 1 = errs[2].code

\* C23: every Error holds a nonzero code that fits its i32: whatever the
\* constructor and its argument, and for the predefined constants;
\* from_os_error(0) is Unexpected.
C23_NonZero ==
    /\ UNSUPPORTED # 0 /\ ERRNO_NOT_POSITIVE # 0 /\ UNEXPECTED # 0
    /\ \A i \in Slots :
         errs[i].kind # "none" =>
            /\ errs[i].code # 0
            /\ i32_MIN <= errs[i].code /\ errs[i].code <= I32_MAX
            /\ (errs[i].kind = "os" /\ errs[i].arg = 0) => errs[i].code = UNEXPECTED

\* from_os_error(0) has given Unexpected, and last_os_error with errno 0 has
\* given ErrnoNotPositive
C23_Witness ==
    /\ errs[1] = [kind |-> "os", arg |-> 0, code |-> UNEXPECTED, raw |-> None]
    /\ errs[2] = [kind |-> "errno", arg |-> 0, code |-> ERRNO_NOT_POSITIVE, raw |-> None]

\* C24: an Error crosses the boundary of the registered custom function as a
\* plain nonzero integer without loss: the u32 that __getrandom_custom returns
\* is 0 exactly when the function returned Ok and is the Error's code
\* otherwise, and getrandom returns Ok for Ok and an Error of exactly that
\* code for Err(e): never an error for Ok nor Ok for an error.
C24_BoundaryLossless ==
    /\ cust.ret # None =>
         /\ cust.bres # None
         /\ (cust.ret[1] = 0) <=> cust.bres[1].ok
         /\ ~cust.bres[1].ok => cust.ret[1] = cust.bres[1].code
    /\ (cust.pc = "done" /\ cust.bres # None) =>
         /\ cust.res # None
         /\ cust.res[1].ok <=> cust.bres[1].ok
         /\ cust.res[1].code = cust.bres[1].code

\* custom_used: mock_rng refused the 7 bytes and getrandom returned LEN7_CODE
C24_Witness ==
    /\ cust.pc = "done" /\ cust.rng = "mock_rng" /\ cust.dest.len = LEN7
    /\ cust.bres = Some(Err(LEN7_CODE))
    /\ cust.ret = Some(LEN7_CODE)
    /\ cust.res = Some(Err(LEN7_CODE))

\* C25: a getrandom call with a non-empty buffer of n bytes invokes the
\* registered function exactly once, on exactly the caller's n bytes, and on
\* success the caller's buffer holds exactly the bytes the function wrote;
\* with the counter implementation the bytes are COUNTER, COUNTER + 1, ... as
\* COUNTER stood when the call started, and COUNTER has advanced by n.
C25_BackendOncePerCall ==
    /\ cust.pc = "inner" => cust.calls = 0
    /\ cust.pc = "ret" => cust.calls = 1
    /\ cust.pc = "done" =>
         IF is_empty(cust.dest) THEN cust.calls = 0 /\ cust.COUNTER = cust.c0
         ELSE /\ cust.calls = 1
              /\ cust.passed = Some(cust.dest)
              /\ cust.res[1].ok =>
                   /\ cust.mem = cust.wrote
                   /\ cust.rng = "super_insecure_rng" =>
                        /\ cust.mem = [i \in 1..cust.dest.len |->
                                         (cust.c0 + i - 1) % U8_MOD]
                        /\ cust.COUNTER = (cust.c0 + cust.dest.len) % U8_MOD

\* custom_rng_output: the first call gave [0, 1, 2, 3], the next [4, 5, 6, 7]
C25_Witness ==
    /\ cust.pc = "done" /\ cust.rng = "super_insecure_rng"
    /\ cust.prev = <<0, 1, 2, 3>>
    /\ cust.mem = <<4, 5, 6, 7>>
    /\ cust.c0 = 4 /\ cust.COUNTER = 8

\* C26: fill_uninit never panics: whatever the destination and whatever the
\* source returns, no call ends in a panic.
C26_NeverPanics ==
    /\ wasi.pc # "panicked"
    /\ fill.pc # "panicked"
    /\ cust.pc # "panicked"

\* the Error the backend returns to getrandom_uninit in the step that ends
\* the call of frame f (g after the step), 0 for Ok: what the attempt just
\* made amounts to, or else the Result the file path has arrived at
BackendError(f, g) ==
    IF f.pc \in {"fill_sys", "fill_file"}
    THEN IF g.last[1].ret = -1 THEN last_os_error(g.last[1].errno)
         ELSE IF g.last[1].ret < 1 \/ g.last[1].ret > f.buf.len THEN UNEXPECTED
         ELSE 0
    ELSE f.res

\* C27: for a non-empty dest, getrandom_uninit hands out the initialized view
\* only if the backend reported success; if the backend returned the error
\* e, getrandom_uninit and getrandom return exactly e and no view exists.
C27_ViewOnlyOnSuccess ==
    [][\A t \in Threads :
          (th[t].pc \notin {"idle", "done"} /\ th'[t].pc = "done"
             /\ ~is_empty(th[t].dest)) =>
              LET e == BackendError(th[t], th'[t]) IN
              /\ th'[t].res = e
              /\ e # 0 => th'[t].view = None
              /\ th'[t].view # None =>
                   /\ e = 0
                   /\ th'[t].api = "getrandom_uninit"
                   /\ th'[t].view = Some(th'[t].dest)]_vars

\* getrandom_uninit has returned EPERM from getrandom without a view, and
\* elsewhere in the run a view is handed out after success
C27_Witness ==
    \E t \in Threads :
        /\ th[t].pc = "done" /\ th[t].api = "getrandom_uninit"
        /\ th[t].dest.len = MaxLen
        /\ th[t].last = Some([ret |-> -1, errno |-> EPERM])
        /\ raw_os_error(th[t].res) = Some(EPERM)
        /\ th[t].view = None

\* C28: double-checked locking of the descriptor. A thread whose first,
\* unlocked check finds a descriptor in FD goes on to read from it without
\* touching the mutex; a thread that holds the mutex and finds a descriptor
\* in FD at its second check takes it and leaves for the unlock, so that no
\* thread is ever polling or opening while FD holds a descriptor.
C28_DoubleChecked ==
    [][\A t \in Threads :
          /\ (th[t].pc = "get_fd" /\ FD # FD_UNINIT /\ th'[t] # th[t]) =>
                /\ th'[t].pc = "fill_file" /\ th'[t].fd = FD
                /\ th'[t].eff = th[t].eff
                /\ MUTEX' = MUTEX /\ fds' = fds
          /\ (th[t].pc = "locked" /\ FD # FD_UNINIT /\ th'[t] # th[t]) =>
                /\ th'[t].pc = "unlock" /\ th'[t].fd = FD /\ th'[t].res = 0
                /\ th'[t].eff = th[t].eff
                /\ fds' = fds /\ FD' = FD
          /\ th[t].pc \in {"open_random", "poll", "close_random", "open_urandom"} =>
                FD = FD_UNINIT]_vars

\* a thread that waited for the mutex while the other opened the file has
\* found the descriptor at its second check, and a third call has found it
\* at the first
C28_Witness ==
    \E t, u \in Threads :
        /\ th[t].pc = "fill_file" /\ "lock" \notin th[t].eff /\ th[t].fd = FD
        /\ th[u].pc = "unlock" /\ "lock" \in th[u].eff
        /\ th[u].eff \cap {"open_random", "poll", "open_urandom"} = {}
        /\ th[u].fd = FD /\ FD # FD_UNINIT

\* C29: /dev/random is only polled: no call, on any path, reads a byte from
\* it, and every read of the file fallback is on a /dev/urandom descriptor.
C29_RandomNeverRead ==
    /\ ~la.readRandom
    /\ \A t \in Threads :
         th[t].pc = "fill_file" => [fd |-> th[t].fd, path |-> "/dev/urandom"] \in fds

\* the word that unsync_init caches for a run of init() with outcome
\* `available`
Cached(available) ==
    IF variant = "lazy_bool" THEN usize_from_bool(available)
    ELSE IF available THEN GETRANDOM_ADDR ELSE NOT_AVAILABLE

\* C30: a call of unsync_init runs init() at most once and never waits for
\* another thread; the value it goes on with is the result of some run of
\* init(), its own or one it loaded; and a call whose load found a value
\* other than the sentinel runs no init() and makes no store.
C30_LazyInit ==
    /\ [](\A t \in Threads :
         /\ th[t].pc = "init" => ("probe" \notin th[t].eff /\ ENABLED RunInit(t))
         /\ th[t].pc = "store" =>
               ("store_flag" \notin th[t].eff /\ ENABLED StoreVal(t))
         /\ (th[t].pc \notin {"idle", "init"} /\ ~is_empty(th[t].dest)) =>
               \E r \in probeResults : th[t].val = Cached(r))
    /\ [][\A t \in Threads :
            (th[t].pc = "idle" /\ th'[t].pc # "idle" /\ ~is_empty(th'[t].dest)
               /\ Cell # UNINIT) =>
                /\ th'[t].val = Cell
                /\ th'[t].pc \notin {"init", "store"}
                /\ th'[t].eff = {}
                /\ Cell' = Cell /\ probeResults' = probeResults]_vars

\* both threads have run init() side by side and stored, and one of them is
\* in a later call that took the cached value without running init()
C30_Witness ==
    \E t, u \in Threads :
        /\ t # u
        /\ {"probe", "store_flag"} \subseteq th[t].eff
        /\ th[u].late /\ th[u].pc \in {"fill_sys", "get_fd"}
        /\ th[u].eff = {} /\ th[u].val = Cell /\ Cell # UNINIT
        /\ Cardinality(probeResults) = 2

\* C31 as stated: every lazy cache loads its word with Acquire and stores it
\* with Release, and a thread that obtained a cached value finds the data
\* that the computing thread wrote before publishing it.
C31_AcquireRelease ==
    ext.lazy.kind # "none" =>
        /\ load_ordering(ext.lazy.kind) = "Acquire"
        /\ store_ordering(ext.lazy.kind) = "Release"
        /\ \A t \in Threads : ext.lazy.th[t].seen # Some(FALSE)

\* C31, amended: the LazyPtr of lazy.rs loads with Acquire and stores with
\* Release, and a thread that obtained its cached pointer finds the data
\* init() wrote; LazyUsize and the LazyPtr of utils/lazy_ptr.rs load and
\* store with Relaxed and publish the value only.
C31_AcquireReleaseForLazyPtr ==
    /\ ext.lazy.kind = "LazyPtr" =>
         /\ load_ordering(ext.lazy.kind) = "Acquire"
         /\ store_ordering(ext.lazy.kind) = "Release"
         /\ \A t \in Threads : ext.lazy.th[t].seen # Some(FALSE)
    /\ ext.lazy.kind \in {"LazyUsize", "utils::LazyPtr"} =>
         /\ load_ordering(ext.lazy.kind) = "Relaxed"
         /\ store_ordering(ext.lazy.kind) = "Relaxed"

\* a thread has taken the cached pointer of a LazyPtr that the other thread
\* stored, and found the data
C31_Witness ==
    \E t, u \in Threads :
        /\ ext.lazy.kind = "LazyPtr"
        /\ ext.lazy.th[u].ran
        /\ ~ext.lazy.th[t].ran /\ ext.lazy.th[t].pc = "done"
        /\ ext.lazy.th[t].val = GETRANDOM_ADDR
        /\ ext.lazy.th[t].seen = Some(TRUE)

\* C40: the LazyPtr of utils/lazy_ptr.rs caches successful initialisations
\* only. When init() returns an error the call returns that error and the
\* word is left as it was, so that a call that finds it null runs init()
\* again; the word is only ever null or a pointer some init() returned, and
\* a call that finds a pointer returns it without running init().
C40_OnlySuccessCached ==
    /\ [](ext.lazy.kind = "utils::LazyPtr" =>
            /\ ext.lazy.word # 0 => ext.lazy.word \in ext.lazy.made
            /\ \A t \in Threads :
                 LET c == ext.lazy.th[t] IN
                 /\ (c.res # None /\ ~c.res[1].ok) =>
                       (c.ran /\ c.res[1].code = UNEXPECTED /\ c.pc \in {"done", "idle"})
                 /\ (c.pc = "use" /\ ~c.ran) => c.val \in ext.lazy.made)
    /\ [][ext.lazy.kind = "utils::LazyPtr" =>
            \A t \in Threads :
              LET c == ext.lazy.th[t]
                  d == ext'.lazy.th[t]
              IN /\ (c.pc = "init" /\ d.pc = "done") =>
                       (~d.res[1].ok /\ ext'.lazy.word = ext.lazy.word)
                 /\ (c.pc = "idle" /\ d.pc # "idle") =>
                       IF ext.lazy.word = 0 THEN d.pc = "init"
                       ELSE /\ d.pc = "use" /\ ~d.ran /\ d.val = ext.lazy.word
                            /\ ext'.lazy.word = ext.lazy.word]_vars

\* a call has returned the error of init() with the word left null, and a
\* later call has run init() again and cached its pointer
C40_Witness ==
    \E t, u \in Threads :
        /\ ext.lazy.kind = "utils::LazyPtr"
        /\ ext.lazy.th[t].pc = "idle" /\ ext.lazy.th[t].res = Some(Err(UNEXPECTED))
        /\ ext.lazy.th[u].pc = "use" /\ ext.lazy.th[u].ran
        /\ ext.lazy.word = GETRANDOM_ADDR

\* C32: sys_fill_exact returns once its attempts stop being interrupted:
\* every attempt that succeeds writes at least one byte more, so that a call
\* makes at most dest.len() successful attempts; an interrupted attempt,
\* however many came before it, is followed by another attempt and never by
\* a return.
C32_Terminates ==
    /\ [](/\ fill.pc = "attempt" =>
               /\ fill.tries - fill.eintrs <= CountW(fill.mem)
               /\ CountW(fill.mem) < fill.dest.len
          /\ (fill.pc = "done" /\ fill.res = 0) =>
               fill.tries - fill.eintrs <= fill.dest.len
          /\ (fill.last # None /\ fill.last[1].ret = -1 /\ fill.last[1].errno = EINTR) =>
               fill.pc = "attempt")
    /\ (fill.pc = "attempt" ~> fill.pc = "done")

\* a call for FillLen bytes was interrupted MaxEintr times, wrote one byte
\* with each other attempt, and returned Ok
C32_Witness ==
    /\ fill.pc = "done" /\ fill.res = 0
    /\ fill.dest.len = FillLen
    /\ fill.eintrs = MaxEintr
    /\ fill.tries = FillLen + MaxEintr

\* C33: an attempt that returns -1 with an errno that reads zero or negative
\* is the last attempt of the call, and sys_fill_exact returns
\* ErrnoNotPositive: not Ok, not the error of an interruption, not Unexpected.
C33_ErrnoNotPositive ==
    (fill.last # None /\ fill.last[1].ret = -1 /\ fill.last[1].errno <= 0) =>
        /\ fill.pc = "done"
        /\ fill.res = ERRNO_NOT_POSITIVE
        /\ raw_os_error(fill.res) = None

\* the second attempt of a call failed with errno 0 after the first had
\* written a byte
C33_Witness ==
    /\ fill.pc = "done" /\ fill.res = ERRNO_NOT_POSITIVE
    /\ fill.tries = 2 /\ CountW(fill.mem) = 1
    /\ fill.last = Some([off |-> 1, len |-> fill.dest.len - 1, ret |-> -1, errno |-> 0])

C39_EveryNegativeCode ==
    \A i \in Slots :
        (errs[i].kind = "os" /\ errs[i].arg < 0) =>
            /\ errs[i].raw # None
            /\ errs[i].raw[1] > 0
            /\ errs[i].raw[1] + errs[i].arg = 0

\* C39: from_os_error stores every negative code as it is; raw_os_error
\* reports Some(-c), with -c > 0, for every stored negative code c but the
\* most negative one, whose negation does not fit an i32: that Error holds
\* an OS code and reports None. Apart from it only non-negative stored codes
\* (the internal and custom ranges) report None.
C39_NegativeCodesButMin ==
    \A i \in Slots :
        /\ (errs[i].kind = "os" /\ errs[i].arg < 0) => errs[i].code = errs[i].arg
        /\ (errs[i].kind # "none" /\ errs[i].code < 0 /\ errs[i].code # i32_MIN) =>
              /\ errs[i].raw # None
              /\ errs[i].raw[1] > 0
              /\ errs[i].raw[1] + errs[i].code = 0
        /\ (errs[i].kind # "none" /\ errs[i].code = i32_MIN) => errs[i].raw = None
        /\ (errs[i].kind # "none" /\ errs[i].raw = None) =>
              (errs[i].code >= 0 \/ errs[i].code = i32_MIN)

\* from_os_error has been given the most negative code and the negation of
\* the largest errno
C39_Witness ==
    /\ errs[1] = [kind |-> "os", arg |-> i32_MIN, code |-> i32_MIN, raw |-> None]
    /\ errs[2] = [kind |-> "os", arg |-> 0 - I32_MAX, code |-> 0 - I32_MAX,
                  raw |-> Some(I32_MAX)]

\* C35: in linux_android.rs every call of getrandom_inner returns in the end,
\* whatever the outcome of the initialising thread's init(): no thread stays
\* in init_loop forever.
C35_EveryCallReturns ==
    \A t \in Threads : (la.th[t].pc = "init_loop") ~> (la.th[t].pc = "done")

\* C36: the NetBSD backend uses one implementation per process: the first
\* pointer stored in GETRANDOM stays there, every call fills through the
\* pointer that GETRANDOM holds, whether it lost the race in init() or came
\* later, and whatever its own lookup returned; so all calls together have
\* used at most one function.
C36_FirstStoredWins ==
    /\ [](/\ Cardinality(ext.netbsd.used) <= 1
          /\ ext.netbsd.used \subseteq {ext.netbsd.GETRANDOM}
          /\ \A t \in Threads :
               ext.netbsd.th[t].pc = "fill" =>
                  /\ ext.netbsd.th[t].fptr # "null"
                  /\ ext.netbsd.th[t].fptr = ext.netbsd.GETRANDOM)
    /\ [][ext.netbsd.GETRANDOM # "null" =>
             ext.netbsd'.GETRANDOM = ext.netbsd.GETRANDOM]_vars

\* two threads raced through init() and their lookups differed: one found
\* getrandom, the other fell back to the polyfill; both are about to fill
\* through the pointer stored first
C36_Witness ==
    \E t, u \in Threads :
        /\ ext.netbsd.th[t].pc = "fill" /\ ext.netbsd.th[u].pc = "fill"
        /\ ext.netbsd.th[t].ptr = "getrandom"
        /\ ext.netbsd.th[u].ptr = "polyfill_using_kern_arand"
        /\ ext.netbsd.GETRANDOM = "polyfill_using_kern_arand"

\* C37: on every non-empty destination and after every kernel result,
\* fill_inner and sys_fill_exact are at the same point: the same cursor and
\* the same outcome; an interrupted result is retried, a zero result and a
\* result beyond the span give Unexpected, any other failure gives the OS
\* error with the kernel's error number, and the result is Ok exactly when
\* the buffer is full.
C37_LoopsAgree ==
    (ext.loops.pc # "idle" /\ ext.loops.k # None) =>
        LET k == ext.loops.k[1]
            a == ext.loops.raw
        IN /\ a = ext.loops.libc
           /\ k = 0 - EINTR => a.out = "again"
           /\ k = 0 => (a.out = "err" /\ a.err = UNEXPECTED)
           /\ (k < 0 /\ k # 0 - EINTR) =>
                 (a.out = "err" /\ raw_os_error(a.err) = Some(0 - k))
           /\ a.out = "ok" <=> (is_empty(a.buf) /\ k > 0)

\* C38: rdrand() makes at most RETRY_LIMIT reads for a word; a word that it
\* returns comes from a read that reported success and is neither all zeros
\* nor all ones, and it returns FAILED_RDRAND only after RETRY_LIMIT reads
\* without such a word. So rdrand_exact never writes an all-zero or all-ones
\* word, makes at most RETRY_LIMIT reads for each word of the destination,
\* and always returns.
C38_RetryLimit ==
    /\ [](LET d == ext.rdrand
              words == Len(d.mem) + (d.len + WORD_SIZE - 1) \div WORD_SIZE
          IN /\ d.tries <= RETRY_LIMIT
             /\ d.pc = "rdrand" => d.tries < RETRY_LIMIT
             /\ d.reads <= RETRY_LIMIT * words
             /\ \A i \in DOMAIN d.mem :
                  d.mem[i].cf = 1 /\ d.mem[i].el # 0 /\ d.mem[i].el # USIZE_MAX
             /\ d.res \in {None, Some("Ok"), Some("FAILED_RDRAND")}
             /\ d.res = Some("FAILED_RDRAND") => d.tries = RETRY_LIMIT
             /\ d.res = Some("Ok") => d.len = 0)
    /\ (ext.rdrand.pc = "rdrand" ~> ext.rdrand.pc = "done")

\* a call for two words and a tail: the first word came from the last
\* permitted read, and the third rdrand() has failed RETRY_LIMIT times
C38_Witness ==
    /\ ext.rdrand.pc = "done"
    /\ ext.rdrand.res = Some("FAILED_RDRAND")
    /\ Len(ext.rdrand.mem) = 2 /\ ext.rdrand.len = 1
    /\ ext.rdrand.reads = 2 * RETRY_LIMIT + 1

====
